---- MODULE Spec2Model ----
(***************************************************************************)
(* The decision-and-risk pipeline of the trading bot: RiskManager          *)
(* (core/risk_manager.py), PositionManager (core/position_manager.py) and  *)
(* TradingEngine (core/engine.py): its start and stop, its market-data,    *)
(* signal and order loops and its position monitoring loop.                *)
(*                                                                         *)
(* Money is counted in whole quote units and sizes in whole base units;    *)
(* a size that the risk manager has scaled is an exact fraction [n, d].    *)
(* Every await on exchange.place_order is a suspension point: the call is  *)
(* kept in a sequence of calls in flight and completed by a later step.    *)
(***************************************************************************)
EXTENDS Integers, Sequences, FiniteSets, TLC

\* ---- bounds of the model ------------------------------------------------
MaxTime == 600
TickStep == 150
MaxTrades == 3
MaxCloses == 2
MaxInflight == 2
MaxQueue == 1
PauseAfterLosses == 2
MaxStops == 2
MaxHistory == 1
MaxDays == 2

\* ---- program constants --------------------------------------------------
MaxPositionSizePct == 5
MaxTotalRiskPct == 15
MaxCorrelatedPositions == 3
MaxDrawdownPct == 40
PauseDuration == 300
CorrWindow == 100
EmergencyDrawdownTenths == 11
DailyLossLimitPct == 10
EmergencyExposureTenths == 12

\* ---- input domains ------------------------------------------------------
Symbols == {"BTC-USDT", "ETH-USDT"}
Sides == {"long", "short"}
Balances == {1000, 2000}
FundedBalances == {2000}
EntryFillPrices == {100}
ExitFillPrices == {90, 110}
Statuses == {"filled", "rejected", "partial", "error"}
Reasons == {"tp_sl_hit"}

\* A signal as PositionManager.open_position reads it.
MkSignal(s, d) ==
    [symbol |-> s, side |-> d, size |-> 1, entry_price |-> 100,
     take_profit |-> IF d = "long" THEN 110 ELSE 90,
     stop_loss |-> IF d = "long" THEN 90 ELSE 110,
     strategy |-> "ImpulseImbalance", exchange |-> "bybit"]

Signals == {MkSignal(s, d) : s \in Symbols, d \in Sides}

\* Inputs of the risk limits: the symbols and the request of
\* test_correlated_positions, balances that put the drawdown below, at and
\* beyond its limit, and request sizes that put the value of a request
\* below, at and beyond the position-size limit.
OpenSymbols == {"BTC-USDT-0", "BTC-USDT-1", "BTC-USDT-2"}
NewSymbol == "BTC-USDT-new"
LimitBalances == {1000, 3000, 5000}
LimitRequests ==
    {[symbol |-> s, size |-> n, price |-> 50] :
        s \in {NewSymbol, "BTC-USDT-0"}, n \in {1, 3, 5}}

\* The prices a feed reports, as Position.update_price records them: pairs
\* of time and price, one more than the correlation window holds.
\* Balances, trades and base sizes for the sizing and drawdown figures:
\* 1000, 1100, 900 are test_risk_updates' balances at a hundredth; 1000 to
\* 600 is a drawdown at the limit, 1100 to 600 beyond it.
SizingBalances == {0, 600, 900, 1000, 1100}
SizingBases == {1, 10}
SizingSymbols == {NewSymbol, "BTC-USDT-0"}
SizingTrades ==
    {[symbol |-> "BTC-USDT-0", pnl |-> p, reason |-> "tp_sl_hit"] : p \in {-50, 100}}

\* Market-data messages: order books of one level, or two out of order, a
\* side, with the best bid below the best ask (98, 99 against 100) or
\* crossing it (101 against 100), and a message of another type.  The feed
\* stamps its messages 1, 2, ... in the order it hands them over.
FeedTimestamps == {1, 2}
BidLists == {<<98, 99>>, <<101>>}
AskLists == {<<100>>}
BookMessage(symbol, bids, asks) ==
    [exchange |-> "bybit", symbol |-> symbol, type |-> "orderbook",
     timestamp |-> 0, bids |-> bids, asks |-> asks]
MarketMessages ==
    {BookMessage(s, b, a) : s \in Symbols, b \in BidLists, a \in AskLists}
        \cup {[BookMessage("BTC-USDT", <<>>, <<>>) EXCEPT !.type = "ticker"]}

\* The strategies initialize_strategies knows, in its order.
StrategyOrder == <<"ImpulseImbalance", "ArbitrageVolume">>
BookDepth == 20

\* What get_price answers: 0 for a symbol without a quote, or a price
\* between, or at, the stop and the target of the positions held.
QuotePrices == {0, 100, 110}
CloseAllReasons == {"emergency"}
QuoteSignals == {MkSignal("BTC-USDT", "long"), MkSignal("ETH-USDT", "short")}

\* Order-book levels as (price, size), and the lists a constructor call or
\* an update carries for a side: none, one level, two levels out of order,
\* a level of size 0, and a bid that crosses the asks.
Level(p, s) == [price |-> p, size |-> s]
BidLevelLists ==
    {<<>>, <<Level(99, 2)>>, <<Level(98, 1), Level(99, 2)>>, <<Level(99, 0)>>,
     <<Level(101, 1)>>}
AskLevelLists ==
    {<<>>, <<Level(100, 1)>>, <<Level(102, 2), Level(100, 1)>>}
BookDepths == {1, BookDepth}
BookUpdates ==
    {[bids |-> b] : b \in BidLevelLists} \cup {[asks |-> a] : a \in AskLevelLists}
        \cup {[bids |-> <<Level(99, 0), Level(98, 1)>>, asks |-> <<Level(100, 1)>>]}
\* Sizes asked of the execution estimates (0, within and beyond the depth
\* of a side), the number of levels asked of calculate_market_depth and the
\* volume_weight asked of get_weighted_mid_price, in hundredths.
ExecutionSizes == {0, 1, 4}
ExecutionSides == {"buy", "sell"}
DepthLevels == {1, 10}
VolumeWeightsPct == {50, 100}
CacheDuration == 1
\* The composite strategies: the symbols they are built for, what a
\* sub-strategy answers an evaluation with, the seconds a single signal is
\* kept, the liquidity validate_market_conditions asks for, and how many
\* closed trades a strategy is told of.
StrategySymbols == {"BTC-USDT"}
SubSignals ==
    {[side |-> "none", entry_price |-> 0]}
        \cup {[side |-> d, entry_price |-> p] : d \in Sides, p \in {100, 101}}
ConfirmationWindow == 15
MinLiquidity == 100
MaxStrategyTrades == 3
\* BybitExchange: the tasks that call _ws_connect, max_reconnect_attempts,
\* and the attempts of one call the model follows.
WsCallers == {"keepalive", "message_handler"}
MaxReconnectAttempts == 5
MaxCallAttempts == 6

FeedHistory == [i \in 1..(CorrWindow + 1) |-> <<i, 100 + (i % 2)>>]

VARIABLES
    now,                   \* time.time()
    today,                 \* the wall-clock date, counted in days
    initial_balance, current_balance, peak_balance,
    rm_positions,          \* RiskManager.positions
    trades_history, daily_pnl, consecutive_losses,
    is_trading_allowed, trading_paused_until,
    reported_balances,     \* every balance update_balance was called with
    closed_on,             \* the date of each on_trade_closed call, in call order
    positions,             \* PositionManager.positions
    open_calls,            \* open_position calls awaiting place_order
    close_calls,           \* close_position calls awaiting place_order
    signal_queue, order_queue,
    market_data_queue,     \* TradingEngine.market_data_queue
    orderbooks,            \* the order books of the engine's strategies
    market_log,            \* the messages process_market_data handled
    eng_positions,         \* TradingEngine.positions
    eng_calls,             \* execute_order calls awaiting place_order
    is_running,            \* TradingEngine.is_running
    start_call,            \* where the call of TradingEngine.start() stands
    connected,             \* the exchanges whose connection is up
    stop_calls,            \* the calls of TradingEngine.stop(), in call order
    eng_close_calls,       \* engine close_position calls awaiting place_order
    eng_close_orders,      \* every closing order the engine has submitted
    order_book,            \* an OrderBook of models/orderbook.py
    strat,                 \* the composite strategies' own fields
    ws,                    \* BybitExchange: its public socket and its attempts
    ret                    \* the last handler step: what it returned or logged

rmvars == <<initial_balance, current_balance, peak_balance, rm_positions,
            trades_history, daily_pnl, consecutive_losses,
            is_trading_allowed, trading_paused_until,
            reported_balances, closed_on>>
pmvars == <<positions, open_calls, close_calls>>
lifevars == <<is_running, start_call, connected, stop_calls,
              eng_close_calls, eng_close_orders>>
mktvars == <<market_data_queue, orderbooks, market_log>>
engvars == <<signal_queue, order_queue, eng_positions, eng_calls, lifevars>>
unitvars == <<order_book, strat, ws>>
vars == <<now, today, rmvars, pmvars, engvars, mktvars, unitvars, ret>>

\* ---- helpers ------------------------------------------------------------
Abs(x) == IF x < 0 THEN 0 - x ELSE x
Min(a, b) == IF a < b THEN a ELSE b
Max(a, b) == IF a > b THEN a ELSE b

\* Euclid's algorithm, and the fraction n/d (d > 0) in lowest terms.  Both
\* are functions, so that their arguments are computed once.
GcdOf[a \in Nat, b \in Nat] == IF b = 0 THEN a ELSE GcdOf[b, a % b]
Gcd(a, b) == GcdOf[a, b]

LowestTerms[n \in Int, d \in Nat] ==
    LET g == GcdOf[Abs(n), d] IN
    IF g = 0 THEN [n |-> 0, d |-> 1] ELSE [n |-> n \div g, d |-> d \div g]
Rat(n, d) == LowestTerms[n, d]

\* Product, order, smaller and larger of two fractions.
Fractions == [n : Int, d : Nat]
RatLess(a, b) == a.n * b.d < b.n * a.d
RatMulOf[a \in Fractions, b \in Fractions] == Rat(a.n * b.n, a.d * b.d)
RatMinOf[a \in Fractions, b \in Fractions] == IF RatLess(a, b) THEN a ELSE b
RatMaxOf[a \in Fractions, b \in Fractions] == IF RatLess(a, b) THEN b ELSE a
RatMul(a, b) == RatMulOf[a, b]
RatMin(a, b) == RatMinOf[a, b]
RatMax(a, b) == RatMaxOf[a, b]

RemoveAt(seq, i) == SubSeq(seq, 1, i - 1) \o SubSeq(seq, i + 1, Len(seq))

RECURSIVE SumSeq(_)
SumSeq(seq) == IF seq = <<>> THEN 0 ELSE Head(seq) + SumSeq(Tail(seq))

RECURSIVE SumOver(_, _)
SumOver(f, S) ==
    IF S = {} THEN 0
    ELSE LET x == CHOOSE y \in S : TRUE IN f[x] + SumOver(f, S \ {x})

\* What a handler step did: its operation and symbol, the value it returned
\* (or the exception it logged), and the status and price of the exchange
\* response it resumed with ("not_called": no place_order call was made).
\* A direct call of can_open_position records the size and price it was
\* asked about, a monitoring step the outcome of the strategy's evaluation.
Ret(op, symbol, value, resp, price) ==
    [op |-> op, symbol |-> symbol, value |-> value, resp |-> resp, price |-> price,
     size |-> 0, eval |-> "", side |-> "", result |-> [n |-> 0, d |-> 1]]

\* ---- RiskManager --------------------------------------------------------

\* update_balance taking the latest balance for the peak.
UpdateBalancePeakIsLast(new_balance) ==
    /\ initial_balance' = IF initial_balance = 0 THEN new_balance ELSE initial_balance
    /\ current_balance' = new_balance
    /\ peak_balance' = new_balance
    /\ reported_balances' = reported_balances \cup {new_balance}

\* update_balance(new_balance)
UpdateBalanceEffect(new_balance) ==
    /\ initial_balance' = IF initial_balance = 0 THEN new_balance ELSE initial_balance
    /\ current_balance' = new_balance
    /\ peak_balance' = Max(peak_balance, new_balance)
    /\ reported_balances' = reported_balances \cup {new_balance}

\* calculate_drawdown(): a percentage, as an exact fraction.
CalculateDrawdown ==
    IF peak_balance = 0 THEN Rat(0, 1)
    ELSE Rat((peak_balance - current_balance) * 100, peak_balance)

\* |calculate_correlation(symbol1, symbol2)|: 0 unless both symbols are in
\* RiskManager.positions with at least `window` samples of price history;
\* the rows handed to numpy.corrcoef then hold two observations each, which
\* correlate with coefficient +1 or -1.
AbsCorrelation(symbol1, symbol2) ==
    IF symbol1 \notin DOMAIN rm_positions \/ symbol2 \notin DOMAIN rm_positions
    THEN Rat(0, 1)
    ELSE IF Len(rm_positions[symbol1].price_history) < CorrWindow
            \/ Len(rm_positions[symbol2].price_history) < CorrWindow
    THEN Rat(0, 1)
    ELSE Rat(1, 1)

\* sum(abs(pos.size * pos.current_price) for pos in self.positions.values())
TotalExposure ==
    SumOver([s \in DOMAIN rm_positions |->
                Abs(rm_positions[s].size * rm_positions[s].current_price)],
            DOMAIN rm_positions)

GrossProfit == SumSeq([i \in DOMAIN trades_history |->
                        IF trades_history[i].pnl > 0 THEN trades_history[i].pnl ELSE 0])
GrossLoss == Abs(SumSeq([i \in DOMAIN trades_history |->
                        IF trades_history[i].pnl < 0 THEN trades_history[i].pnl ELSE 0]))

\* calculate_risk_metrics().profit_factor
ProfitFactor == IF GrossLoss # 0 THEN Rat(GrossProfit, GrossLoss) ELSE Rat(0, 1)

\* calculate_risk_metrics().daily_loss
DailyLoss == LET daily == IF daily_pnl # <<>> THEN daily_pnl[Len(daily_pnl)] ELSE 0
             IN Abs(Min(0, daily))

\* can_open_position without the pause test of its second check.
CanOpenPositionIgnoringPause(symbol, size, price) ==
    IF ~is_trading_allowed THEN "False"
    ELSE IF ~RatLess(CalculateDrawdown, Rat(MaxDrawdownPct, 1)) THEN "False"
    ELSE IF current_balance = 0 THEN "ZeroDivisionError"
    ELSE IF size.n * price * 100 > MaxPositionSizePct * current_balance * size.d
         THEN "False"
    ELSE IF (TotalExposure * size.d + size.n * price) * 100
                > MaxTotalRiskPct * current_balance * size.d
         THEN "False"
    ELSE "True"

\* can_open_position denying a request whose value is exactly the limit.
CanOpenPositionSizeInclusive(symbol, size, price) ==
    IF ~is_trading_allowed THEN "False"
    ELSE IF now < trading_paused_until THEN "False"
    ELSE IF ~RatLess(CalculateDrawdown, Rat(MaxDrawdownPct, 1)) THEN "False"
    ELSE IF current_balance = 0 THEN "ZeroDivisionError"
    ELSE IF size.n * price * 100 >= MaxPositionSizePct * current_balance * size.d
         THEN "False"
    ELSE IF (TotalExposure * size.d + size.n * price) * 100
                > MaxTotalRiskPct * current_balance * size.d
         THEN "False"
    ELSE IF Cardinality({p \in DOMAIN rm_positions :
                RatLess(Rat(7, 10), AbsCorrelation(symbol, p))})
            >= MaxCorrelatedPositions
         THEN "False"
    ELSE "True"

\* can_open_position allowing a drawdown that is exactly the limit.
CanOpenPositionDrawdownExclusive(symbol, size, price) ==
    IF ~is_trading_allowed THEN "False"
    ELSE IF now < trading_paused_until THEN "False"
    ELSE IF RatLess(Rat(MaxDrawdownPct, 1), CalculateDrawdown) THEN "False"
    ELSE IF current_balance = 0 THEN "ZeroDivisionError"
    ELSE IF size.n * price * 100 > MaxPositionSizePct * current_balance * size.d
         THEN "False"
    ELSE IF (TotalExposure * size.d + size.n * price) * 100
                > MaxTotalRiskPct * current_balance * size.d
         THEN "False"
    ELSE IF Cardinality({p \in DOMAIN rm_positions :
                RatLess(Rat(7, 10), AbsCorrelation(symbol, p))})
            >= MaxCorrelatedPositions
         THEN "False"
    ELSE "True"

\* can_open_position(symbol, size, price): "True", "False", or the exception
\* that escapes it.  size is a fraction [n, d].
CanOpenPosition(symbol, size, price) ==
    IF ~is_trading_allowed THEN "False"
    ELSE IF now < trading_paused_until THEN "False"
    ELSE IF ~RatLess(CalculateDrawdown, Rat(MaxDrawdownPct, 1)) THEN "False"
    ELSE IF current_balance = 0 THEN "ZeroDivisionError"
    \* position_value / current_balance > max_position_size
    ELSE IF IF current_balance > 0
            THEN size.n * price * 100 > MaxPositionSizePct * current_balance * size.d
            ELSE size.n * price * 100 < MaxPositionSizePct * current_balance * size.d
         THEN "False"
    \* new_total_exposure / current_balance > max_total_risk
    ELSE IF IF current_balance > 0
            THEN (TotalExposure * size.d + size.n * price) * 100
                    > MaxTotalRiskPct * current_balance * size.d
            ELSE (TotalExposure * size.d + size.n * price) * 100
                    < MaxTotalRiskPct * current_balance * size.d
         THEN "False"
    ELSE IF Cardinality({p \in DOMAIN rm_positions :
                RatLess(Rat(7, 10), AbsCorrelation(symbol, p))})
            >= MaxCorrelatedPositions
         THEN "False"
    ELSE "True"

\* on_trade_closed as it would be if a trade of pnl 0 counted as a loss.
OnTradeClosedZeroIsLoss(trade) ==
    /\ trades_history' = Append(trades_history, trade)
    /\ closed_on' = Append(closed_on, today)
    /\ IF trade.pnl <= 0
       THEN /\ consecutive_losses' = consecutive_losses + 1
            /\ trading_paused_until' =
                 IF consecutive_losses + 1 >= PauseAfterLosses
                 THEN now + PauseDuration ELSE trading_paused_until
       ELSE /\ consecutive_losses' = 0
            /\ trading_paused_until' = trading_paused_until
    /\ daily_pnl' = IF daily_pnl # <<>>
                    THEN [daily_pnl EXCEPT ![Len(daily_pnl)] = @ + trade.pnl]
                    ELSE Append(daily_pnl, trade.pnl)
    /\ UNCHANGED <<initial_balance, current_balance, peak_balance, rm_positions,
                   is_trading_allowed, reported_balances>>

\* on_trade_closed as it would be if a winning trade ended the pause.
OnTradeClosedClearsPause(trade) ==
    /\ trades_history' = Append(trades_history, trade)
    /\ closed_on' = Append(closed_on, today)
    /\ IF trade.pnl < 0
       THEN /\ consecutive_losses' = consecutive_losses + 1
            /\ trading_paused_until' =
                 IF consecutive_losses + 1 >= PauseAfterLosses
                 THEN now + PauseDuration ELSE trading_paused_until
       ELSE /\ consecutive_losses' = 0
            /\ trading_paused_until' = 0
    /\ daily_pnl' = IF daily_pnl # <<>>
                    THEN [daily_pnl EXCEPT ![Len(daily_pnl)] = @ + trade.pnl]
                    ELSE Append(daily_pnl, trade.pnl)
    /\ UNCHANGED <<initial_balance, current_balance, peak_balance, rm_positions,
                   is_trading_allowed, reported_balances>>

\* on_trade_closed(trade_result)
OnTradeClosed(trade) ==
    /\ trades_history' = Append(trades_history, trade)
    /\ closed_on' = Append(closed_on, today)
    /\ IF trade.pnl < 0
       THEN /\ consecutive_losses' = consecutive_losses + 1
            /\ trading_paused_until' =
                 IF consecutive_losses + 1 >= PauseAfterLosses
                 THEN now + PauseDuration ELSE trading_paused_until
       ELSE /\ consecutive_losses' = 0
            /\ trading_paused_until' = trading_paused_until
    /\ daily_pnl' = IF daily_pnl # <<>>
                    THEN [daily_pnl EXCEPT ![Len(daily_pnl)] = @ + trade.pnl]
                    ELSE Append(daily_pnl, trade.pnl)
    /\ UNCHANGED <<initial_balance, current_balance, peak_balance, rm_positions,
                   is_trading_allowed, reported_balances>>

\* adjust_position_size(base_size, symbol), base_size a whole number.
CorrelationPenalty(symbol) ==
    IF \E p \in DOMAIN rm_positions : AbsCorrelation(symbol, p) = Rat(1, 1)
    THEN Rat(0, 1) ELSE Rat(1, 1)

\* adjust_position_size returning the adjusted size without its limits.
AdjustPositionSizeUnclamped(base_size, symbol) ==
    LET dd == CalculateDrawdown
        drawdown_factor ==
            RatMax(Rat(0, 1), Rat(dd.d * MaxDrawdownPct - dd.n, dd.d * MaxDrawdownPct))
        performance_factor ==
            RatMin(Rat(1, 1), Rat(ProfitFactor.n, ProfitFactor.d * 2))
    IN RatMul(RatMul(RatMul(Rat(base_size, 1), drawdown_factor),
                     CorrelationPenalty(symbol)), performance_factor)

AdjustPositionSize(base_size, symbol) ==
    LET dd == CalculateDrawdown
        drawdown_factor ==
            RatMax(Rat(0, 1), Rat(dd.d * MaxDrawdownPct - dd.n, dd.d * MaxDrawdownPct))
        performance_factor ==
            RatMin(Rat(1, 1), Rat(ProfitFactor.n, ProfitFactor.d * 2))
        adjusted_size ==
            RatMul(RatMul(RatMul(Rat(base_size, 1), drawdown_factor),
                          CorrelationPenalty(symbol)), performance_factor)
        min_size == Rat(base_size * 2, 10)
        max_size == Rat(base_size * 15, 10)
    IN RatMax(min_size, RatMin(adjusted_size, max_size))

\* should_emergency_close with the daily loss limit itself counted as exceeded.
ShouldEmergencyCloseInclusiveLoss ==
    IF ~RatLess(CalculateDrawdown, Rat(MaxDrawdownPct * EmergencyDrawdownTenths, 10))
    THEN TRUE
    ELSE IF DailyLoss * 100 >= current_balance * DailyLossLimitPct THEN TRUE
    ELSE IF TotalExposure * 100 * 10
                > current_balance * MaxTotalRiskPct * EmergencyExposureTenths
    THEN TRUE
    ELSE FALSE

\* should_emergency_close(): critical drawdown, extreme daily loss, extreme
\* exposure, in that order.
ShouldEmergencyClose ==
    IF ~RatLess(CalculateDrawdown, Rat(MaxDrawdownPct * EmergencyDrawdownTenths, 10))
    THEN TRUE
    ELSE IF DailyLoss * 100 > current_balance * DailyLossLimitPct THEN TRUE
    ELSE IF TotalExposure * 100 * 10
                > current_balance * MaxTotalRiskPct * EmergencyExposureTenths
    THEN TRUE
    ELSE FALSE

\* ---- PositionManager ----------------------------------------------------

\* Position(...) as open_position constructs it from the signal and the
\* exchange's response (models/position.py).
NewPosition(signal, price, size) ==
    [symbol |-> signal.symbol, side |-> signal.side, entry_price |-> price,
     size |-> size, take_profit |-> signal.take_profit,
     stop_loss |-> signal.stop_loss, strategy |-> signal.strategy,
     exchange |-> signal.exchange, current_price |-> 0, unrealized_pnl |-> 0,
     price_history |-> <<>>]

CalculatePnlIgnoringSide(position, close_price) ==
    (close_price - position.entry_price) * position.size

\* calculate_pnl(position, close_price)
CalculatePnl(position, close_price) ==
    IF position.side = "long"
    THEN (close_price - position.entry_price) * position.size
    ELSE (position.entry_price - close_price) * position.size

\* open_position without its risk check.
OpenPositionUnchecked(signal) ==
    /\ Len(open_calls) + Len(close_calls) < MaxInflight
    /\ open_calls' = Append(open_calls, signal)
    /\ ret' = Ret("open_position", signal.symbol, "awaiting", "pending", 0)
    /\ UNCHANGED <<now, today, unitvars, mktvars, rmvars, positions, close_calls, engvars>>

\* open_position(signal) up to its await: the risk check, then the call of
\* exchange.place_order.  An exception of the check is caught and logged.
OpenPosition(signal) ==
    /\ Len(open_calls) + Len(close_calls) < MaxInflight
    /\ IF CanOpenPosition(signal.symbol, Rat(signal.size, 1), signal.entry_price) = "True"
       THEN /\ open_calls' = Append(open_calls, signal)
            /\ ret' = Ret("open_position", signal.symbol, "awaiting", "pending", 0)
       ELSE /\ open_calls' = open_calls
            /\ ret' = Ret("open_position", signal.symbol, "None", "not_called", 0)
    /\ UNCHANGED <<now, today, unitvars, mktvars, rmvars, positions, close_calls, engvars>>

\* open_position registering a position for a partial fill as well.
OpenPositionResumeOnPartial(i, status, price) ==
    /\ i \in DOMAIN open_calls
    /\ LET signal == open_calls[i] IN
       /\ open_calls' = RemoveAt(open_calls, i)
       /\ IF status \in {"filled", "partial"}
          THEN /\ positions' =
                    [s \in DOMAIN positions \cup {signal.symbol} |->
                        IF s = signal.symbol
                        THEN NewPosition(signal, price, signal.size)
                        ELSE positions[s]]
               /\ ret' = Ret("open_position", signal.symbol, "Position", status, price)
          ELSE /\ positions' = positions
               /\ ret' = Ret("open_position", signal.symbol, "None", status, 0)
    /\ UNCHANGED <<now, today, unitvars, mktvars, rmvars, close_calls, engvars>>

\* open_position(signal) after its await: place_order answered with a status
\* ("error": it raised), echoing the requested size and reporting a price.
OpenPositionResume(i, status, price) ==
    /\ i \in DOMAIN open_calls
    /\ LET signal == open_calls[i] IN
       /\ open_calls' = RemoveAt(open_calls, i)
       /\ IF status = "filled"
          THEN /\ positions' =
                    [s \in DOMAIN positions \cup {signal.symbol} |->
                        IF s = signal.symbol
                        THEN NewPosition(signal, price, signal.size)
                        ELSE positions[s]]
               /\ ret' = Ret("open_position", signal.symbol, "Position", status, price)
          ELSE /\ positions' = positions
               /\ ret' = Ret("open_position", signal.symbol, "None", status, 0)
    /\ UNCHANGED <<now, today, unitvars, mktvars, rmvars, close_calls, engvars>>

\* A close_position call suspended in place_order: the position it read from
\* the open set and the opposing market order it submitted.
CloseCall(symbol, reason, position) ==
    [symbol |-> symbol, reason |-> reason, position |-> position,
     order |-> [side |-> IF position.side = "long" THEN "sell" ELSE "buy",
                type |-> "market", size |-> position.size]]

\* close_position without the membership test of its first lines.
ClosePositionUnchecked(symbol, reason) ==
    /\ Len(open_calls) + Len(close_calls) < MaxInflight
    /\ Len(trades_history) + Len(close_calls) < MaxCloses
    /\ close_calls' = Append(close_calls,
            CloseCall(symbol, reason,
                      IF symbol \in DOMAIN positions THEN positions[symbol]
                      ELSE NewPosition(MkSignal(symbol, "long"), 100, 1)))
    /\ ret' = Ret("close_position", symbol, "awaiting", "pending", 0)
    /\ UNCHANGED <<now, today, unitvars, mktvars, rmvars, positions, open_calls, engvars>>

\* close_position(symbol, reason) up to its await.
ClosePosition(symbol, reason) ==
    /\ Len(open_calls) + Len(close_calls) < MaxInflight
    /\ Len(trades_history) + Len(close_calls) < MaxCloses
    /\ IF symbol \notin DOMAIN positions
       THEN /\ close_calls' = close_calls
            /\ ret' = Ret("close_position", symbol, "False", "not_called", 0)
       ELSE /\ close_calls' = Append(close_calls,
                    CloseCall(symbol, reason, positions[symbol]))
            /\ ret' = Ret("close_position", symbol, "awaiting", "pending", 0)
    /\ UNCHANGED <<now, today, unitvars, mktvars, rmvars, positions, open_calls, engvars>>

\* close_position(symbol, reason) after its await.  On a fill the trade goes
\* to the risk manager and then the slot is deleted; the del raises KeyError,
\* which is caught, when the slot is already empty.
ClosePositionResume(i, status, price) ==
    /\ i \in DOMAIN close_calls
    /\ LET call == close_calls[i] IN
       /\ close_calls' = RemoveAt(close_calls, i)
       /\ IF status = "filled"
          THEN /\ OnTradeClosed([symbol |-> call.symbol,
                                 pnl |-> CalculatePnl(call.position, price),
                                 reason |-> call.reason])
               /\ IF call.symbol \in DOMAIN positions
                  THEN /\ positions' = [s \in DOMAIN positions \ {call.symbol} |->
                                            positions[s]]
                       /\ ret' = Ret("close_position", call.symbol, "True", status, price)
                  ELSE /\ positions' = positions
                       /\ ret' = Ret("close_position", call.symbol, "False", status, price)
          ELSE /\ UNCHANGED rmvars
               /\ positions' = positions
               /\ ret' = Ret("close_position", call.symbol, "False", status, 0)
    /\ UNCHANGED <<now, today, unitvars, mktvars, open_calls, engvars>>

\* ---- TradingEngine: signal and order loops ------------------------------

\* generate_signals: a registered strategy proposes a trade.
GenerateSignals(signal) ==
    /\ Len(signal_queue) + Len(order_queue) < MaxQueue
    /\ signal_queue' = Append(signal_queue, signal)
    /\ ret' = Ret("generate_signals", signal.symbol, "queued", "not_called", 0)
    /\ UNCHANGED <<now, today, unitvars, mktvars, rmvars, pmvars, order_queue, eng_positions, eng_calls,
                   lifevars>>

\* signal_processing_loop / process_signal: size, check, build the order.
\* An exception of the check leaves process_signal and is logged by the loop.
ProcessSignal ==
    /\ signal_queue # <<>>
    /\ \E signal \in {Head(signal_queue)} :
       \E size \in {AdjustPositionSize(signal.size, signal.symbol)} :
       \E ok \in {CanOpenPosition(signal.symbol, size, signal.entry_price)} :
          /\ signal_queue' = Tail(signal_queue)
          /\ IF ok = "True"
             THEN /\ order_queue' = Append(order_queue,
                        [symbol |-> signal.symbol, side |-> signal.side,
                         type |-> "LIMIT", size |-> size,
                         price |-> signal.entry_price,
                         take_profit |-> signal.take_profit,
                         stop_loss |-> signal.stop_loss,
                         strategy |-> signal.strategy])
                  /\ ret' = Ret("process_signal", signal.symbol, "queued", "not_called", 0)
             ELSE /\ order_queue' = order_queue
                  /\ ret' = Ret("process_signal", signal.symbol, ok, "not_called", 0)
    /\ UNCHANGED <<now, today, unitvars, mktvars, rmvars, pmvars, eng_positions, eng_calls, lifevars>>

\* order_processing_loop / execute_order up to its await.  The lookup
\* order['exchange'] raises KeyError for an order that has no such key; the
\* exception is caught and logged.
ExecuteOrder ==
    /\ order_queue # <<>>
    /\ eng_calls = <<>>
    /\ LET order == Head(order_queue) IN
       /\ order_queue' = Tail(order_queue)
       /\ IF "exchange" \in DOMAIN order
          THEN /\ eng_calls' = Append(eng_calls, order)
               /\ ret' = Ret("execute_order", order.symbol, "awaiting", "pending", 0)
          ELSE /\ eng_calls' = eng_calls
               /\ ret' = Ret("execute_order", order.symbol, "KeyError", "not_called", 0)
    /\ UNCHANGED <<now, today, unitvars, mktvars, rmvars, pmvars, signal_queue, eng_positions, lifevars>>

\* An order put on order_queue from outside process_signal, naming the
\* exchange it is for.
OrderArrives(order) ==
    /\ Len(order_queue) < MaxQueue
    /\ order_queue' = Append(order_queue, order)
    /\ ret' = Ret("order_queue.put", order.symbol, "None", "not_called", 0)
    /\ UNCHANGED <<now, today, unitvars, mktvars, rmvars, pmvars, signal_queue,
                   eng_positions, eng_calls, lifevars>>

\* The orders at the head of the queue that execute_order gives up on at
\* once (KeyError), up to the first that names its exchange.
RECURSIVE SkipUnroutable(_)
SkipUnroutable(queue) ==
    IF queue = <<>> \/ "exchange" \in DOMAIN Head(queue) THEN queue
    ELSE SkipUnroutable(Tail(queue))

\* execute_order as it would be if Position(...) could be built from the
\* arguments it is given: a filled order is registered.
ExecuteOrderResumeRegisters(status, price) ==
    /\ eng_calls # <<>>
    /\ LET order == Head(eng_calls)
           rest == SkipUnroutable(order_queue)
       IN /\ eng_positions' =
                IF status = "filled"
                THEN [sym \in DOMAIN eng_positions \cup {order.symbol} |->
                        IF sym = order.symbol
                        THEN NewPosition(order, price, order.size)
                        ELSE eng_positions[sym]]
                ELSE eng_positions
          /\ eng_calls' = IF rest = <<>> THEN <<>> ELSE <<Head(rest)>>
          /\ order_queue' = IF rest = <<>> THEN <<>> ELSE Tail(rest)
          /\ ret' = Ret("execute_order", order.symbol,
                        IF status = "error" THEN "Exception" ELSE "None", status, price)
    /\ UNCHANGED <<now, today, unitvars, mktvars, rmvars, pmvars, signal_queue, lifevars>>

\* execute_order after its await of place_order, and order_processing_loop
\* up to its next suspension.  An exchange error is caught and logged.  For
\* a filled order Position(...) is called without the exchange argument the
\* dataclass requires: TypeError, caught and logged, and nothing is
\* registered.  The inner loop then takes the next order whatever the flag
\* says, and sleeps when the queue is empty.
ExecuteOrderResume(status, price) ==
    /\ eng_calls # <<>>
    /\ LET order == Head(eng_calls)
           rest == SkipUnroutable(order_queue)
       IN /\ eng_positions' = eng_positions
          /\ eng_calls' = IF rest = <<>> THEN <<>> ELSE <<Head(rest)>>
          /\ order_queue' = IF rest = <<>> THEN <<>> ELSE Tail(rest)
          /\ ret' = Ret("execute_order", order.symbol,
                        IF status = "error" THEN "Exception"
                        ELSE IF status = "filled" THEN "TypeError" ELSE "None",
                        status, price)
    /\ UNCHANGED <<now, today, unitvars, mktvars, rmvars, pmvars, signal_queue, lifevars>>

\* ---- TradingEngine: start, stop and the monitoring loop ------------------

\* sorted(levels, key=price, reverse=True) and sorted(levels, key=price)
RECURSIVE SortDesc(_)
SortDesc(seq) ==
    IF seq = <<>> THEN <<>>
    ELSE LET i == CHOOSE k \in DOMAIN seq : \A j \in DOMAIN seq : seq[j] <= seq[k]
         IN <<seq[i]>> \o SortDesc(RemoveAt(seq, i))

RECURSIVE SortAsc(_)
SortAsc(seq) ==
    IF seq = <<>> THEN <<>>
    ELSE LET i == CHOOSE k \in DOMAIN seq : \A j \in DOMAIN seq : seq[j] >= seq[k]
         IN <<seq[i]>> \o SortAsc(RemoveAt(seq, i))

\* OrderBook(symbol, timestamp, bids, asks): __post_init__ sorts each side
\* and keeps its first `depth` levels.
NewOrderBook(data) ==
    [symbol |-> data.symbol, timestamp |-> data.timestamp,
     bids |-> SubSeq(SortDesc(data.bids), 1, Min(Len(data.bids), BookDepth)),
     asks |-> SubSeq(SortAsc(data.asks), 1, Min(Len(data.asks), BookDepth))]

\* OrderBook.is_valid()
IsValid(book) ==
    /\ book.bids # <<>> /\ book.asks # <<>>
    /\ book.bids[1] < book.asks[1]
    /\ \A i \in 2..Len(book.bids) : book.bids[i] <= book.bids[i - 1]
    /\ \A i \in 2..Len(book.asks) : book.asks[i] >= book.asks[i - 1]

\* A strategy's books before any update: OrderBook() for each symbol.
EmptyBooks ==
    [s \in Symbols |-> [symbol |-> s, timestamp |-> 0, bids |-> <<>>, asks |-> <<>>]]

\* self.strategies, in the order of the dict.
RegisteredStrategies == SelectSeq(StrategyOrder, LAMBDA st : st \in DOMAIN orderbooks)

\* self.exchanges, in the order connect_exchanges and disconnect_exchanges
\* go through it.
ExchangeOrder == <<"bybit", "okx">>

\* How an awaited connect() or disconnect() ends: it returns or it raises.
Outcomes == {"ok", "error"}

\* How the strategy's part of a monitoring step ends: the lookup of the
\* strategy or of the price raises KeyError, or should_close_position returns
\* True or False, or it raises.
StrategyOutcomes == {"KeyError", "True", "False", "raises"}

MonitorPrices == {110}

\* The open sets an engine holds when a run begins: none, a short, a short
\* and a long.
HeldSets ==
    {[s \in S |-> NewPosition(MkSignal(s, IF s = "BTC-USDT" THEN "short" ELSE "long"),
                              100, 1)] :
        S \in {{}, {"BTC-USDT"}, {"BTC-USDT", "ETH-USDT"}}}

\* The loops run between the launch by start() and the fall of the flag.
LoopsRunning == start_call.pc = "running" /\ is_running

\* stop() up to its first suspension.  It drops the flag and goes through
\* close_all_positions, where every call
\* self.close_position(position.symbol, 'system_shutdown') raises TypeError
\* (close_position takes the position alone): the error is caught and logged
\* per position and no order is submitted.  The call then waits in
\* disconnect_exchanges.
StopBody(by) ==
    /\ is_running' = FALSE
    /\ stop_calls' = Append(stop_calls,
            [by |-> by, pc |-> "disconnecting", idx |-> 0,
             open_at_call |-> DOMAIN eng_positions,
             in_flight |-> {eng_calls[k].symbol : k \in DOMAIN eng_calls},
             orders_at_call |-> Len(eng_close_orders),
             orders_at_disconnect |-> Len(eng_close_orders)])

\* start() up to its await of the first connect().
Start ==
    /\ start_call.pc = "idle"
    /\ is_running' = TRUE
    /\ start_call' = [start_call EXCEPT !.pc = "connecting"]
    /\ ret' = Ret("start", "", "awaiting", "not_called", 0)
    /\ UNCHANGED <<now, today, unitvars, mktvars, rmvars, pmvars, signal_queue, order_queue, eng_positions,
                   eng_calls, connected, stop_calls, eng_close_calls,
                   eng_close_orders>>

\* connect_exchanges carrying on after a connect() that raised.
ConnectExchangesResumeSwallowing(outcome) ==
    /\ start_call.pc = "connecting"
    /\ LET exchange == ExchangeOrder[start_call.idx + 1] IN
       /\ connected' = IF outcome = "ok" THEN connected \cup {exchange} ELSE connected
       /\ start_call' = [start_call EXCEPT
                !.idx = @ + 1,
                !.pc = IF start_call.idx + 1 = Len(ExchangeOrder)
                       THEN "running" ELSE "connecting"]
       /\ ret' = Ret("connect_exchanges", exchange,
                     IF outcome = "ok" THEN "connected" ELSE "raised", outcome, 0)
    /\ UNCHANGED <<now, today, unitvars, mktvars, rmvars, pmvars, signal_queue, order_queue, eng_positions,
                   eng_calls, is_running, stop_calls, eng_close_calls,
                   eng_close_orders>>

\* connect_exchanges after an await of connect().  When the last exchange
\* is connected start() launches the four loops; when a connect() raised,
\* the error is logged and raised again, and start() calls stop().
ConnectExchangesResume(outcome) ==
    /\ start_call.pc = "connecting"
    /\ LET exchange == ExchangeOrder[start_call.idx + 1] IN
       IF outcome = "ok"
       THEN /\ connected' = connected \cup {exchange}
            /\ start_call' = [start_call EXCEPT
                     !.idx = @ + 1,
                     !.pc = IF start_call.idx + 1 = Len(ExchangeOrder)
                            THEN "running" ELSE "connecting"]
            /\ ret' = Ret("connect_exchanges", exchange, "connected", outcome, 0)
            /\ UNCHANGED <<is_running, stop_calls>>
       ELSE /\ connected' = connected
            /\ start_call' = [start_call EXCEPT !.pc = "aborting", !.error = TRUE]
            /\ StopBody("start")
            /\ ret' = Ret("connect_exchanges", exchange, "raised", outcome, 0)
    /\ UNCHANGED <<now, today, unitvars, mktvars, rmvars, pmvars, signal_queue, order_queue, eng_positions,
                   eng_calls, eng_close_calls, eng_close_orders>>

\* SIGINT or SIGTERM: the handler of run_bot schedules BotRunner.stop(),
\* which calls stop() once start() has reached a suspension point.  The
\* signals are so many that MaxStops calls of stop() are made at most, the
\* one that a start() still connecting may come to make included.
SignalStop ==
    /\ start_call.pc # "idle"
    /\ Len(stop_calls) + (IF start_call.pc = "connecting" THEN 1 ELSE 0) < MaxStops
    /\ StopBody("signal")
    /\ ret' = Ret("stop", "signal", "awaiting", "not_called", 0)
    /\ UNCHANGED <<now, today, unitvars, mktvars, rmvars, pmvars, signal_queue, order_queue, eng_positions,
                   eng_calls, start_call, connected, eng_close_calls,
                   eng_close_orders>>

\* disconnect_exchanges of the i-th stop() after an await of disconnect();
\* an error is caught and logged.  After the last exchange the executor is
\* shut down and stop() returns, and with it the start() that called it.
DisconnectExchangesResume(i, outcome) ==
    /\ i \in DOMAIN stop_calls
    /\ stop_calls[i].pc = "disconnecting"
    /\ LET call == stop_calls[i]
           exchange == ExchangeOrder[call.idx + 1]
           last == call.idx + 1 = Len(ExchangeOrder)
       IN /\ connected' = IF outcome = "ok" THEN connected \ {exchange} ELSE connected
          /\ stop_calls' = [stop_calls EXCEPT
                   ![i].idx = @ + 1,
                   ![i].pc = IF last THEN "returned" ELSE "disconnecting"]
          /\ start_call' = IF last /\ call.by = "start"
                           THEN [start_call EXCEPT !.pc = "returned"]
                           ELSE start_call
          /\ ret' = IF last
                    THEN Ret("stop", call.by, "returned", outcome, 0)
                    ELSE Ret("disconnect_exchanges", exchange, "None", outcome, 0)
    /\ UNCHANGED <<now, today, unitvars, mktvars, rmvars, pmvars, signal_queue, order_queue, eng_positions,
                   eng_calls, is_running, eng_close_calls, eng_close_orders>>

\* The four loops find the flag down and end; gather, and start(), return.
LoopsReturn ==
    /\ start_call.pc = "running"
    /\ ~is_running
    /\ eng_close_calls = <<>>
    /\ eng_calls = <<>>
    /\ start_call' = [start_call EXCEPT !.pc = "returned"]
    /\ ret' = Ret("start", "", "returned", "not_called", 0)
    /\ UNCHANGED <<now, today, unitvars, mktvars, rmvars, pmvars, signal_queue, order_queue, eng_positions,
                   eng_calls, is_running, connected, stop_calls, eng_close_calls,
                   eng_close_orders>>

\* One pass of market_data_loop, signal_processing_loop, order_processing_loop.
MarketDataLoopStep(signal) == LoopsRunning /\ GenerateSignals(signal)
SignalLoopStep == LoopsRunning /\ ProcessSignal
OrderLoopStep == LoopsRunning /\ ExecuteOrder

\* The feed hands the engine a message: market_data_queue.put(data).
MarketDataArrives(data) ==
    /\ Len(market_log) + Len(market_data_queue) + 1 \in FeedTimestamps
    /\ market_data_queue' = Append(market_data_queue,
            [data EXCEPT !.timestamp = Len(market_log) + Len(market_data_queue) + 1])
    /\ ret' = Ret("market_data", data.symbol, "queued", "not_called", 0)
    /\ UNCHANGED <<now, today, unitvars, rmvars, pmvars, engvars, orderbooks, market_log>>

\* The signals generate_signals queues: one for each strategy whose
\* should_open_position proposes a trade, in the order of self.strategies.
ProposedSignals(symbol, proposers) ==
    LET names == SelectSeq(RegisteredStrategies, LAMBDA st : st \in proposers)
    IN [i \in DOMAIN names |->
            [MkSignal(symbol, "long") EXCEPT !.strategy = names[i]]]

\* process_market_data letting an exception of a strategy out of the loop:
\* start() then takes its error path.
ProcessMarketDataUncaught(accepted, proposers) ==
    /\ LoopsRunning
    /\ market_data_queue # <<>>
    /\ accepted = {} /\ proposers = {}
    /\ RegisteredStrategies # <<>>
    /\ Head(market_data_queue).type = "orderbook"
    /\ market_data_queue' = Tail(market_data_queue)
    /\ market_log' = Append(market_log,
            [timestamp |-> Head(market_data_queue).timestamp,
             symbol |-> Head(market_data_queue).symbol, outcome |-> "TypeError"])
    /\ start_call' = [start_call EXCEPT !.pc = "aborting", !.error = TRUE]
    /\ StopBody("start")
    /\ ret' = Ret("process_market_data", Head(market_data_queue).symbol,
                  "TypeError", "not_called", 0)
    /\ UNCHANGED <<now, today, unitvars, rmvars, pmvars, signal_queue, order_queue,
                   eng_positions, eng_calls, connected, eng_close_calls,
                   eng_close_orders, orderbooks>>

\* process_market_data for the n-th message of the queue.  An order-book
\* message becomes an OrderBook that is handed to update_orderbook of each
\* strategy in turn and, when all have taken it,
\* generate_signals runs for the symbol.  `accepted` are the strategies
\* whose update_orderbook takes (symbol, orderbook); the call of any other
\* raises TypeError, which ends process_market_data and is logged by the
\* loop.  `proposers` are the strategies whose should_open_position
\* answers with a signal.
ProcessMarketDataAt(n, accepted, proposers) ==
    /\ LoopsRunning
    /\ n \in DOMAIN market_data_queue
    /\ accepted \subseteq DOMAIN orderbooks
    /\ proposers \subseteq DOMAIN orderbooks
    /\ Len(signal_queue) + Len(order_queue) + Cardinality(proposers) <= MaxQueue
    /\ LET data == market_data_queue[n]
           book == NewOrderBook(data)
           raising == {i \in DOMAIN RegisteredStrategies :
                          RegisteredStrategies[i] \notin accepted}
           updated == {RegisteredStrategies[i] : i \in
                          {k \in DOMAIN RegisteredStrategies :
                              \A j \in raising : k < j}}
           outcome == IF data.type # "orderbook" THEN "ignored"
                      ELSE IF raising # {} THEN "TypeError"
                      ELSE "generated"
       IN /\ outcome # "generated" => proposers = {}
          /\ outcome = "ignored" => accepted = DOMAIN orderbooks
          /\ market_data_queue' = RemoveAt(market_data_queue, n)
          /\ orderbooks' =
                IF outcome = "ignored" THEN orderbooks
                ELSE [st \in DOMAIN orderbooks |->
                        IF st \in updated
                        THEN [orderbooks[st] EXCEPT ![data.symbol] = book]
                        ELSE orderbooks[st]]
          /\ signal_queue' = signal_queue \o ProposedSignals(data.symbol, proposers)
          /\ market_log' = Append(market_log,
                [timestamp |-> data.timestamp, symbol |-> data.symbol,
                 outcome |-> outcome])
          /\ ret' = Ret("process_market_data", data.symbol, outcome, "not_called", 0)
    /\ UNCHANGED <<now, today, unitvars, rmvars, pmvars, order_queue, eng_positions, eng_calls,
                   lifevars>>

\* market_data_loop taking the newest message of its queue first.
ProcessMarketDataNewestFirst(accepted, proposers) ==
    ProcessMarketDataAt(Len(market_data_queue), accepted, proposers)

\* market_data_loop: self.market_data_queue.get(), the oldest message, and
\* process_market_data for it.
ProcessMarketData(accepted, proposers) ==
    ProcessMarketDataAt(1, accepted, proposers)

\* Position.update_price(new_price)
UpdatePrice(position, new_price) ==
    [position EXCEPT
        !.current_price = new_price,
        !.price_history = Append(@, <<now, new_price>>),
        !.unrealized_pnl = IF position.side = "long"
                           THEN (new_price - position.entry_price) * position.size
                           ELSE (position.entry_price - new_price) * position.size]

\* The market order engine.close_position submits for a position.
EngineCloseOrder(position) ==
    [symbol |-> position.symbol,
     side |-> IF position.side = "buy" THEN "sell" ELSE "buy",
     type |-> "MARKET", size |-> position.size]

\* TradingEngine.calculate_pnl(position, close_price)
EngineCalculatePnl(position, close_price) ==
    IF position.side = "buy"
    THEN (close_price - position.entry_price) * position.size
    ELSE (position.entry_price - close_price) * position.size

\* The close_position calls close_all_positions gathers, one for each key of
\* self.positions; any of them may be resumed first.
RECURSIVE CloseCallsFor(_, _)
CloseCallsFor(symbols, reason) ==
    IF symbols = {} THEN <<>>
    ELSE LET s == CHOOSE x \in symbols : TRUE
         IN <<CloseCall(s, reason, positions[s])>> \o CloseCallsFor(symbols \ {s}, reason)

\* close_all_positions starting close_position for one key only.
CloseAllPositionsFirstOnly(reason) ==
    /\ Len(open_calls) + Len(close_calls) + Cardinality(DOMAIN positions) <= MaxInflight
    /\ Len(trades_history) + Len(close_calls) + Cardinality(DOMAIN positions) <= MaxCloses
    /\ close_calls' = close_calls \o
            (IF positions = <<>> THEN <<>>
             ELSE <<CloseCallsFor(DOMAIN positions, reason)[1]>>)
    /\ ret' = IF positions = <<>>
              THEN Ret("close_all_positions", "", "None", "not_called", 0)
              ELSE Ret("close_all_positions", "", "awaiting", "pending", 0)
    /\ UNCHANGED <<now, today, unitvars, mktvars, rmvars, positions, open_calls, engvars>>

\* PositionManager.close_all_positions(reason) up to its await of
\* asyncio.gather: close_position is started for every key of
\* self.positions and each call runs to its own await of place_order.
CloseAllPositions(reason) ==
    /\ Len(open_calls) + Len(close_calls) + Cardinality(DOMAIN positions) <= MaxInflight
    /\ Len(trades_history) + Len(close_calls) + Cardinality(DOMAIN positions) <= MaxCloses
    /\ close_calls' = close_calls \o CloseCallsFor(DOMAIN positions, reason)
    /\ ret' = IF positions = <<>>
              THEN Ret("close_all_positions", "", "None", "not_called", 0)
              ELSE Ret("close_all_positions", "", "awaiting", "pending", 0)
    /\ UNCHANGED <<now, today, unitvars, mktvars, rmvars, positions, open_calls, engvars>>

\* PositionManager.should_close_position(position)
ShouldClosePosition(position) ==
    IF position.side = "long"
    THEN \/ position.current_price >= position.take_profit
         \/ position.current_price <= position.stop_loss
    ELSE \/ position.current_price <= position.take_profit
         \/ position.current_price >= position.stop_loss

\* PositionManager.update_positions, one position of one pass: the price
\* the exchange quotes (0 when it has none) is recorded in the position,
\* and when should_close_position holds close_position(symbol, 'tp_sl_hit')
\* runs up to its await of place_order.
UpdatePositions(symbol, price) ==
    /\ symbol \in DOMAIN positions
    /\ Len(positions[symbol].price_history) < MaxHistory
    /\ Len(open_calls) + Len(close_calls) < MaxInflight
    /\ Len(trades_history) + Len(close_calls) < MaxCloses
    /\ LET position == UpdatePrice(positions[symbol], price) IN
         /\ positions' = [positions EXCEPT ![symbol] = position]
         /\ IF ShouldClosePosition(position)
            THEN /\ close_calls' = Append(close_calls,
                                          CloseCall(symbol, "tp_sl_hit", position))
                 /\ ret' = Ret("update_positions", symbol, "closing", "pending", price)
            ELSE /\ close_calls' = close_calls
                 /\ ret' = Ret("update_positions", symbol, "kept", "not_called", price)
    /\ UNCHANGED <<now, today, unitvars, mktvars, rmvars, open_calls, engvars>>

\* position_monitoring_loop, one position of one pass: the strategy and the
\* price are looked up, the price is recorded, and the position is closed
\* when should_close_position(position) or should_emergency_close() holds;
\* the close goes as far as its await of place_order.  An exception at any
\* point ends the pass in the loop's handler.
MonitorPosition(symbol, outcome, price) ==
    /\ LoopsRunning
    /\ eng_close_calls = <<>>
    /\ Len(eng_close_orders) < MaxCloses
    /\ symbol \in DOMAIN eng_positions
    /\ Len(eng_positions[symbol].price_history) < MaxHistory
    /\ LET position == UpdatePrice(eng_positions[symbol], price)
           close == outcome = "True" \/ (outcome = "False" /\ ShouldEmergencyClose)
       IN /\ eng_positions' = IF outcome = "KeyError" THEN eng_positions
                              ELSE [eng_positions EXCEPT ![symbol] = position]
          /\ IF outcome \in {"True", "False"} /\ close
             THEN /\ eng_close_calls' = <<[symbol |-> symbol, position |-> position]>>
                  /\ eng_close_orders' = Append(eng_close_orders,
                                                EngineCloseOrder(position))
                  /\ ret' = [Ret("monitor", symbol, "closing", "pending", price)
                             EXCEPT !.eval = outcome]
             ELSE /\ UNCHANGED <<eng_close_calls, eng_close_orders>>
                  /\ ret' = [Ret("monitor", symbol,
                                 IF outcome = "False" THEN "kept" ELSE "Exception",
                                 "not_called", price)
                             EXCEPT !.eval = outcome]
    /\ UNCHANGED <<now, today, unitvars, mktvars, rmvars, pmvars, signal_queue, order_queue, eng_calls,
                   is_running, start_call, connected, stop_calls>>

\* The handler of position_monitoring_loop logs the exception and the loop
\* goes to its next pass with no await in between: after a pass that ended
\* in the handler the event loop has run nothing else yet.
Suspended == ~(ret.op = "monitor" /\ ret.value = "Exception")

\* One position of one pass of position_monitoring_loop, the lookup
\* self.strategies[position.strategy] raising KeyError exactly when the
\* position's strategy is not registered.
MonitorPass(symbol, outcome, price) ==
    /\ symbol \in DOMAIN eng_positions
    /\ (outcome = "KeyError") <=> (eng_positions[symbol].strategy \notin DOMAIN orderbooks)
    /\ MonitorPosition(symbol, outcome, price)

\* engine.close_position(position) after its await of place_order: on a
\* fill the trade goes to the risk manager and the position leaves the open
\* set; anything else leaves things as they are.
EngineClosePositionResume(status, price) ==
    /\ eng_close_calls # <<>>
    /\ LET call == Head(eng_close_calls) IN
       /\ eng_close_calls' = Tail(eng_close_calls)
       /\ IF status = "filled"
          THEN /\ OnTradeClosed([symbol |-> call.symbol,
                                 pnl |-> EngineCalculatePnl(call.position, price),
                                 duration |-> now])
               /\ eng_positions' = [s \in DOMAIN eng_positions \ {call.symbol} |->
                                        eng_positions[s]]
               /\ ret' = Ret("engine_close_position", call.symbol, "closed", status, price)
          ELSE /\ UNCHANGED rmvars
               /\ eng_positions' = eng_positions
               /\ ret' = Ret("engine_close_position", call.symbol, "kept", status, 0)
    /\ UNCHANGED <<now, today, unitvars, mktvars, pmvars, signal_queue, order_queue, eng_calls, is_running,
                   start_call, connected, stop_calls, eng_close_orders>>

\* ---- OrderBook (models/orderbook.py) --------------------------------------

RatAdd(a, b) == Rat(a.n * b.d + b.n * a.d, a.d * b.d)

\* sorted(levels, key=price) or sorted(levels, key=price, reverse=True):
\* a stable sort, levels of one price keep the order they came in.
RECURSIVE SortLevels(_, _)
SortLevels(levels, descending) ==
    IF levels = <<>> THEN <<>>
    ELSE LET n == Len(levels)
             rest == SortLevels(SubSeq(levels, 1, n - 1), descending)
             before == Cardinality({i \in DOMAIN rest :
                          IF descending THEN rest[i].price >= levels[n].price
                          ELSE rest[i].price <= levels[n].price})
         IN SubSeq(rest, 1, before) \o <<levels[n]>>
                \o SubSeq(rest, before + 1, Len(rest))

\* seq[:k]
FirstLevels(seq, k) == SubSeq(seq, 1, Min(Len(seq), k))

PricesOf(levels) == [i \in DOMAIN levels |-> levels[i].price]
SizesOf(levels) == [i \in DOMAIN levels |-> levels[i].size]
ValuesOf(levels) == [i \in DOMAIN levels |-> levels[i].size * levels[i].price]

\* OrderBook(symbol, timestamp, bids, asks, depth=depth): the dataclass
\* fields and __post_init__; the cache starts empty, stamped with the time
\* of construction.
ConstructOrderBook(bids, asks, depth, timestamp) ==
    [bids |-> FirstLevels(SortLevels(bids, TRUE), depth),
     asks |-> FirstLevels(SortLevels(asks, FALSE), depth),
     depth |-> depth, timestamp |-> timestamp,
     cached_metrics |-> <<>>, cache_timestamp |-> timestamp]

\* the levels of an update that update() keeps: those with size > 0
PositiveLevels(levels) == SelectSeq(levels, LAMBDA l : l.size > 0)

\* is_valid() for the book held
BookIsValid == IsValid([bids |-> PricesOf(order_book.bids), asks |-> PricesOf(order_book.asks)])

\* OrderBook(...) built anew
NewBook(bids, asks, depth) ==
    /\ order_book' = ConstructOrderBook(bids, asks, depth, now)
    /\ ret' = Ret("OrderBook", "", "None", "not_called", 0)
    /\ UNCHANGED <<now, today, mktvars, rmvars, pmvars, engvars, strat, ws>>

\* update(updates)
UpdateBook(updates) ==
    /\ order_book' = [order_book EXCEPT
            !.bids = IF "bids" \in DOMAIN updates
                     THEN FirstLevels(SortLevels(PositiveLevels(updates.bids), TRUE),
                                      order_book.depth)
                     ELSE @,
            !.asks = IF "asks" \in DOMAIN updates
                     THEN FirstLevels(SortLevels(PositiveLevels(updates.asks), FALSE),
                                      order_book.depth)
                     ELSE @,
            !.timestamp = now,
            !.cached_metrics = <<>>]
    /\ ret' = Ret("update", "", "None", "not_called", 0)
    /\ UNCHANGED <<now, today, mktvars, rmvars, pmvars, engvars, strat, ws>>

\* is_valid()
IsValidCall ==
    /\ ret' = Ret("is_valid", "", IF BookIsValid THEN "True" ELSE "False",
                  "not_called", 0)
    /\ UNCHANGED <<now, today, mktvars, rmvars, pmvars, engvars, unitvars>>

\* float('inf'), as a fraction
Infinity == [n |-> 1, d |-> 0]

\* The walk over the levels of a side that calculate_impact_price and
\* estimate_execution_price share: what was paid, and what is left to fill.
RECURSIVE FillFrom(_, _)
FillFrom(levels, remaining_size) ==
    IF levels = <<>> \/ remaining_size <= 0
    THEN [cost |-> 0, remaining_size |-> remaining_size]
    ELSE LET executed_size == Min(remaining_size, Head(levels).size)
             rest == FillFrom(Tail(levels), remaining_size - executed_size)
         IN [cost |-> executed_size * Head(levels).price + rest.cost,
             remaining_size |-> rest.remaining_size]

\* calculate_impact_price(size, side): the average price, float('inf') for a
\* buy and 0.0 for a sell the side cannot fill; size 0 divides by zero.
CalculateImpactPrice(size, side) ==
    LET fill == FillFrom(IF side = "buy" THEN order_book.asks ELSE order_book.bids, size) IN
    IF fill.remaining_size > 0
    THEN IF side = "buy" THEN [value |-> "inf", price |-> Infinity]
         ELSE [value |-> "value", price |-> Rat(0, 1)]
    ELSE IF size = 0 THEN [value |-> "ZeroDivisionError", price |-> Rat(0, 1)]
    ELSE [value |-> "value", price |-> Rat(fill.cost, size)]

\* estimate_execution_price(size, side): the pair (avg_price, slippage);
\* (0.0, 0.0) for a size that is not positive or that the side cannot fill.
\* The first level of an empty side raises IndexError.
EstimateExecutionPrice(size, side) ==
    LET levels == IF side = "buy" THEN order_book.asks ELSE order_book.bids
        fill == FillFrom(levels, size)
        avg_price == Rat(fill.cost, size)
        base_price == levels[1].price
    IN IF size <= 0
       THEN [value |-> "value", price |-> Rat(0, 1), slippage |-> Rat(0, 1)]
       ELSE IF levels = <<>>
       THEN [value |-> "IndexError", price |-> Rat(0, 1), slippage |-> Rat(0, 1)]
       ELSE IF fill.remaining_size > 0
       THEN [value |-> "value", price |-> Rat(0, 1), slippage |-> Rat(0, 1)]
       ELSE [value |-> "value", price |-> avg_price,
             slippage |-> Rat(Abs(avg_price.n - base_price * avg_price.d),
                              base_price * avg_price.d)]

CalculateImpactPriceCall(size, side) ==
    /\ ret' = [Ret("calculate_impact_price", "", CalculateImpactPrice(size, side).value,
                   "not_called", 0)
                EXCEPT !.size = size, !.side = side,
                       !.result = CalculateImpactPrice(size, side).price]
    /\ UNCHANGED <<now, today, mktvars, rmvars, pmvars, engvars, unitvars>>

EstimateExecutionPriceCall(size, side) ==
    /\ ret' = [Ret("estimate_execution_price", "",
                   EstimateExecutionPrice(size, side).value, "not_called", 0)
                EXCEPT !.size = size, !.side = side,
                       !.result = EstimateExecutionPrice(size, side).price]
    /\ UNCHANGED <<now, today, mktvars, rmvars, pmvars, engvars, unitvars>>

\* get_mid_price()
GetMidPrice(b) ==
    IF b.bids = <<>> \/ b.asks = <<>> THEN Rat(0, 1)
    ELSE Rat(b.bids[1].price + b.asks[1].price, 2)

\* What get_weighted_mid_price computes when it does not answer from the
\* cache, for volume_weight = weight_pct / 100.
WeightedMidPrice(b, weight_pct) ==
    LET bids5 == FirstLevels(b.bids, 5)
        asks5 == FirstLevels(b.asks, 5)
        total_bid_size == SumSeq(SizesOf(bids5))
        total_ask_size == SumSeq(SizesOf(asks5))
    IN IF total_bid_size = 0 \/ total_ask_size = 0 THEN GetMidPrice(b)
       ELSE RatAdd(RatMul(Rat(SumSeq(ValuesOf(bids5)), total_bid_size),
                          Rat(weight_pct, 100)),
                   RatMul(Rat(SumSeq(ValuesOf(asks5)), total_ask_size),
                          Rat(100 - weight_pct, 100)))

\* What calculate_market_depth computes when it does not answer from the
\* cache.
MarketDepth(b, price_levels) ==
    LET bid_depth == SumSeq(ValuesOf(FirstLevels(b.bids, price_levels)))
        ask_depth == SumSeq(ValuesOf(FirstLevels(b.asks, price_levels)))
    IN [bid_depth |-> bid_depth, ask_depth |-> ask_depth,
        total_depth |-> bid_depth + ask_depth,
        depth_ratio |-> IF ask_depth > 0 THEN Rat(bid_depth, ask_depth) ELSE Infinity]

\* _should_update_cache(metric), its test
ShouldUpdateCache(metric) ==
    \/ metric \notin DOMAIN order_book.cached_metrics
    \/ now - order_book.cache_timestamp > CacheDuration

\* self._cached_metrics[metric] = value, after _should_update_cache has
\* answered True and stamped the cache
CacheStore(metric, value) ==
    [order_book EXCEPT !.cache_timestamp = now,
                 !.cached_metrics =
                    [m \in DOMAIN @ \cup {metric} |-> IF m = metric THEN value ELSE @[m]]]

\* get_weighted_mid_price(volume_weight)
GetWeightedMidPrice(weight_pct) ==
    /\ order_book' = IF ShouldUpdateCache("weighted_mid_price")
               THEN CacheStore("weighted_mid_price", WeightedMidPrice(order_book, weight_pct))
               ELSE order_book
    /\ ret' = [Ret("get_weighted_mid_price", "", "value", "not_called", 0)
                EXCEPT !.size = weight_pct,
                       !.result = order_book'.cached_metrics["weighted_mid_price"]]
    /\ UNCHANGED <<now, today, mktvars, rmvars, pmvars, engvars, strat, ws>>

\* calculate_market_depth(price_levels)
CalculateMarketDepth(price_levels) ==
    /\ order_book' = IF ShouldUpdateCache("market_depth")
               THEN CacheStore("market_depth", MarketDepth(order_book, price_levels))
               ELSE order_book
    /\ ret' = [Ret("calculate_market_depth", "", "value", "not_called", 0)
                EXCEPT !.size = price_levels]
    /\ UNCHANGED <<now, today, mktvars, rmvars, pmvars, engvars, strat, ws>>

\* ---- composite strategies (strategies/combined) --------------------------

\* A sub-strategy's answer to should_open_position: None, or a signal with
\* its side and entry price.
NoSignal == [side |-> "none", entry_price |-> 0]

\* BaseStrategy.__init__: an empty book for every symbol and the counters.
BaseStrategyInit ==
    [orderbooks |-> [sym \in StrategySymbols |-> [bids |-> <<>>, asks |-> <<>>]],
     losing_trades_count |-> 0, total_trades |-> 0, profitable_trades |-> 0,
     is_paused |-> FALSE]

\* A sub-strategy of a composite. Its books and its history are kept as
\* what its should_open_position answers for them, per symbol.
SubStrategyInit ==
    [losing_trades_count |-> 0, total_trades |-> 0, profitable_trades |-> 0,
     signal |-> [sym \in StrategySymbols |-> NoSignal]]

\* ImpulseImbalanceStrategy.__init__
ImpulseImbalanceInit ==
    [orderbooks |-> BaseStrategyInit.orderbooks,
     losing_trades_count |-> 0, total_trades |-> 0, profitable_trades |-> 0,
     is_paused |-> FALSE,
     imbalance_strategy |-> SubStrategyInit,
     impulse_strategy |-> SubStrategyInit,
     min_volume_ratio |-> Rat(5, 2),
     min_imbalance_ratio |-> Rat(5, 2),
     pending_signals |-> <<>>]

\* ArbitrageVolumeStrategy.__init__
ArbitrageVolumeInit ==
    [losing_trades_count |-> 0, total_trades |-> 0, profitable_trades |-> 0,
     arbitrage_strategy |-> SubStrategyInit,
     volume_strategy |-> SubStrategyInit,
     min_spread_pct |-> Rat(15, 10000),
     volume_thresholds |-> [high |-> Rat(3, 1), medium |-> Rat(2, 1), low |-> Rat(3, 2)]]

\* BaseStrategy.on_trade_closed, on the counters of a strategy
BaseOnTradeClosed(s, profitable) ==
    [s EXCEPT !.total_trades = @ + 1,
              !.profitable_trades = IF profitable THEN @ + 1 ELSE @,
              !.losing_trades_count = IF profitable THEN 0 ELSE @ + 1]

\* ImpulseImbalanceStrategy.update_orderbook(symbol, bids, asks): the books
\* go to the two sub-strategies, whose answers for the symbol become
\* imbalance_signal and impulse_signal; the composite's own book is left as
\* it is.
CompositeUpdateOrderbook(symbol, imbalance_signal, impulse_signal) ==
    /\ strat' = [strat EXCEPT
                    !.impulse_imbalance.imbalance_strategy.signal[symbol] = imbalance_signal,
                    !.impulse_imbalance.impulse_strategy.signal[symbol] = impulse_signal]
    /\ ret' = Ret("update_orderbook", symbol, "None", "not_called", 0)
    /\ UNCHANGED <<now, today, mktvars, rmvars, pmvars, engvars, order_book, ws>>

\* validate_market_conditions(symbol) on the composite's own book
ValidateMarketConditions(s, symbol) ==
    LET orderbook == s.orderbooks[symbol]
    IN IF orderbook.asks = <<>> \/ orderbook.bids = <<>> THEN "IndexError"
       ELSE IF (orderbook.asks[1].price - orderbook.bids[1].price) * 1000
                   > orderbook.bids[1].price
            THEN "False"
       ELSE IF Min(SumSeq(SizesOf(FirstLevels(orderbook.bids, 5))),
                   SumSeq(SizesOf(FirstLevels(orderbook.asks, 5)))) < MinLiquidity
            THEN "False"
       ELSE "True"

\* ImpulseImbalanceStrategy.should_open_position(symbol)
ShouldOpenPosition(symbol) ==
    LET s == strat.impulse_imbalance
        kept == {sym \in DOMAIN s.pending_signals :
                    now - s.pending_signals[sym].timestamp <= ConfirmationWindow}
        pruned == [s EXCEPT !.pending_signals = [sym \in kept |-> s.pending_signals[sym]]]
        valid == ValidateMarketConditions(pruned, symbol)
        imbalance_signal == s.imbalance_strategy.signal[symbol]
        impulse_signal == s.impulse_strategy.signal[symbol]
        entry_price == IF imbalance_signal.side = "long"
                       THEN Max(imbalance_signal.entry_price, impulse_signal.entry_price)
                       ELSE Min(imbalance_signal.entry_price, impulse_signal.entry_price)
        Pending(type, signal) ==
            [sym \in kept \cup {symbol} |->
                IF sym = symbol
                THEN [type |-> type, signal |-> signal, timestamp |-> now]
                ELSE pruned.pending_signals[sym]]
    IN /\ IF s.is_paused
          THEN /\ strat' = strat
               /\ ret' = Ret("should_open_position", symbol, "None", "not_called", 0)
          ELSE IF valid = "IndexError"
          THEN /\ strat' = [strat EXCEPT !.impulse_imbalance = pruned]
               /\ ret' = Ret("should_open_position", symbol, "IndexError", "not_called", 0)
          ELSE IF valid = "False"
          THEN /\ strat' = [strat EXCEPT !.impulse_imbalance = pruned]
               /\ ret' = Ret("should_open_position", symbol, "None", "not_called", 0)
          ELSE IF /\ imbalance_signal # NoSignal /\ impulse_signal # NoSignal
                  /\ imbalance_signal.side = impulse_signal.side
          THEN /\ strat' = [strat EXCEPT !.impulse_imbalance = pruned]
               /\ ret' = [Ret("should_open_position", symbol, "signal", "not_called",
                              entry_price)
                            EXCEPT !.side = imbalance_signal.side, !.eval = "high"]
          ELSE /\ strat' =
                    [strat EXCEPT !.impulse_imbalance.pending_signals =
                        IF imbalance_signal # NoSignal /\ symbol \notin kept
                        THEN Pending("imbalance", imbalance_signal)
                        ELSE IF impulse_signal # NoSignal /\ symbol \notin kept
                        THEN Pending("impulse", impulse_signal)
                        ELSE pruned.pending_signals]
               /\ ret' = Ret("should_open_position", symbol, "None", "not_called", 0)
       /\ UNCHANGED <<now, today, mktvars, rmvars, pmvars, engvars, order_book, ws>>

\* ImpulseImbalanceStrategy.on_trade_closed(profitable)
ImpulseImbalanceOnTradeClosed(profitable) ==
    LET s == strat.impulse_imbalance
        counted == [BaseOnTradeClosed(s, profitable) EXCEPT
                        !.imbalance_strategy = BaseOnTradeClosed(@, profitable),
                        !.impulse_strategy = BaseOnTradeClosed(@, profitable)]
    IN /\ s.total_trades < MaxStrategyTrades
       /\ strat' = [strat EXCEPT !.impulse_imbalance =
            IF ~profitable
            THEN [counted EXCEPT !.min_volume_ratio = RatMul(@, Rat(11, 10)),
                                 !.min_imbalance_ratio = RatMul(@, Rat(11, 10))]
            ELSE [counted EXCEPT
                    !.min_volume_ratio = RatMax(Rat(5, 2), RatMul(@, Rat(19, 20))),
                    !.min_imbalance_ratio = RatMax(Rat(5, 2), RatMul(@, Rat(19, 20)))]]
       /\ ret' = [Ret("ImpulseImbalance.on_trade_closed", "", "None", "not_called", 0)
                    EXCEPT !.eval = IF profitable THEN "win" ELSE "loss"]
       /\ UNCHANGED <<now, today, mktvars, rmvars, pmvars, engvars, order_book, ws>>

\* ArbitrageVolumeStrategy.on_trade_closed(profitable). The branch of a
\* profitable trade reads self.initial_thresholds, an attribute no code
\* sets: the call ends in AttributeError after the counters were updated
\* and before any threshold is assigned.
ArbitrageVolumeOnTradeClosed(profitable) ==
    LET s == strat.arbitrage_volume
        counted == [BaseOnTradeClosed(s, profitable) EXCEPT
                        !.arbitrage_strategy = BaseOnTradeClosed(@, profitable),
                        !.volume_strategy = BaseOnTradeClosed(@, profitable)]
    IN /\ s.total_trades < MaxStrategyTrades
       /\ strat' = [strat EXCEPT !.arbitrage_volume =
            IF ~profitable
            THEN [counted EXCEPT
                    !.volume_thresholds =
                        [level \in DOMAIN @ |-> RatMul(@[level], Rat(11, 10))],
                    !.min_spread_pct = RatMul(@, Rat(11, 10))]
            ELSE counted]
       /\ ret' = [Ret("ArbitrageVolume.on_trade_closed", "",
                      IF profitable THEN "AttributeError" ELSE "None", "not_called", 0)
                    EXCEPT !.eval = IF profitable THEN "win" ELSE "loss"]
       /\ UNCHANGED <<now, today, mktvars, rmvars, pmvars, engvars, order_book, ws>>

\* ---- BybitExchange's web socket (exchanges/bybit.py) ---------------------

\* A caller's _ws_connect call: where it stands, the connection attempts it
\* has made, the seconds of its last sleep, how it ended and whether it
\* opened a socket.
WsCallInit ==
    [pc |-> "idle", attempts |-> 0, sleep |-> 0, outcome |-> "", established |-> FALSE]

\* BybitExchange.__init__
WsInit ==
    [ws_public |-> "None", reconnect_attempts |-> 0,
     calls |-> [caller \in WsCallers |-> WsCallInit]]

\* The test of the while loop of _ws_connect, at the start of the call and
\* after a sleep: another attempt, or the end of the loop and a normal
\* return.
WsLoopTest(caller) ==
    IF ws.reconnect_attempts < MaxReconnectAttempts
    THEN /\ ws' = [ws EXCEPT !.calls[caller].pc = "connecting",
                             !.calls[caller].attempts = @ + 1]
         /\ ret' = [Ret("_ws_connect", caller, "pending", "not_called", 0)
                      EXCEPT !.size = ws'.calls[caller].attempts]
    ELSE /\ ws' = [ws EXCEPT !.calls[caller].pc = "idle",
                             !.calls[caller].outcome = "returned"]
         /\ ret' = [Ret("_ws_connect", caller, "returned", "not_called", 0)
                      EXCEPT !.size = ws.calls[caller].attempts]

\* _ws_connect() is called: by connect(), by _ws_keepalive after an error,
\* by _ws_message_handler after a closed connection.
WsConnect(caller) ==
    /\ ws.calls[caller].pc = "idle"
    /\ \E started \in {[ws EXCEPT !.calls[caller] = WsCallInit]} :
          IF started.reconnect_attempts < MaxReconnectAttempts
          THEN /\ ws' = [started EXCEPT !.calls[caller].pc = "connecting",
                                        !.calls[caller].attempts = 1]
               /\ ret' = [Ret("_ws_connect", caller, "pending", "not_called", 0)
                            EXCEPT !.size = 1]
          ELSE /\ ws' = [started EXCEPT !.calls[caller].outcome = "returned"]
               /\ ret' = Ret("_ws_connect", caller, "returned", "not_called", 0)
    /\ UNCHANGED <<now, today, mktvars, rmvars, pmvars, engvars, order_book, strat>>

\* websockets.connect answers: with a socket, or with an exception.
WsConnectResume(caller, ok) ==
    /\ ws.calls[caller].pc = "connecting"
    /\ IF ok
       THEN /\ ws' = [ws EXCEPT !.ws_public = "open",
                                !.reconnect_attempts = 0,
                                !.calls[caller].pc = "idle",
                                !.calls[caller].outcome = "returned",
                                !.calls[caller].established = TRUE]
            /\ ret' = [Ret("_ws_connect", caller, "returned", "connected", 0)
                         EXCEPT !.size = ws.calls[caller].attempts]
       ELSE IF ws.reconnect_attempts + 1 >= MaxReconnectAttempts
       THEN /\ ws' = [ws EXCEPT !.reconnect_attempts = @ + 1,
                                !.calls[caller].pc = "idle",
                                !.calls[caller].outcome = "raised"]
            /\ ret' = [Ret("_ws_connect", caller, "raised", "error", 0)
                         EXCEPT !.size = ws.calls[caller].attempts]
       ELSE /\ ws' = [ws EXCEPT !.reconnect_attempts = @ + 1,
                                !.calls[caller].pc = "sleeping",
                                !.calls[caller].sleep = 2 ^ (ws.reconnect_attempts + 1)]
            /\ ret' = [Ret("_ws_connect", caller, "sleeping", "error",
                           2 ^ (ws.reconnect_attempts + 1))
                         EXCEPT !.size = ws.calls[caller].attempts]
    /\ UNCHANGED <<now, today, mktvars, rmvars, pmvars, engvars, order_book, strat>>

\* asyncio.sleep(2 ** reconnect_attempts) is over: the loop tests again.
WsSleepDone(caller) ==
    /\ ws.calls[caller].pc = "sleeping"
    /\ ws.calls[caller].attempts < MaxCallAttempts
    /\ WsLoopTest(caller)
    /\ UNCHANGED <<now, today, mktvars, rmvars, pmvars, engvars, order_book, strat>>

\* The connection drops: the socket object stays, closed.
WsConnectionLost ==
    /\ ws.ws_public = "open"
    /\ ws' = [ws EXCEPT !.ws_public = "closed"]
    /\ ret' = Ret("ConnectionClosed", "", "", "not_called", 0)
    /\ UNCHANGED <<now, today, mktvars, rmvars, pmvars, engvars, order_book, strat>>

\* ---- environment --------------------------------------------------------

Tick ==
    /\ now + TickStep <= MaxTime
    /\ now' = now + TickStep
    /\ UNCHANGED <<today, rmvars, pmvars, engvars, mktvars, unitvars, ret>>

UpdateBalance(new_balance) ==
    /\ UpdateBalanceEffect(new_balance)
    /\ ret' = Ret("update_balance", "", "None", "not_called", 0)
    /\ UNCHANGED <<now, today, unitvars, mktvars, rm_positions, trades_history, daily_pnl,
                   consecutive_losses, is_trading_allowed, trading_paused_until,
                   closed_on, pmvars, engvars>>

\* A direct call of can_open_position.
CanOpenPositionCall(symbol, size, price) ==
    /\ ret' = [Ret("can_open_position", symbol,
                   CanOpenPosition(symbol, Rat(size, 1), price), "not_called", price)
                EXCEPT !.size = size]
    /\ UNCHANGED <<now, today, unitvars, mktvars, rmvars, pmvars, engvars>>

\* The constructors' state, the engine's open set and strategies aside.
Constructed ==
    /\ now = 0 /\ today = 0
    /\ initial_balance = 0 /\ current_balance = 0 /\ peak_balance = 0
    /\ rm_positions = <<>>
    /\ trades_history = <<>> /\ daily_pnl = <<>>
    /\ consecutive_losses = 0
    /\ is_trading_allowed = TRUE
    /\ trading_paused_until = 0
    /\ reported_balances = {} /\ closed_on = <<>>
    /\ positions = <<>>
    /\ open_calls = <<>> /\ close_calls = <<>>
    /\ signal_queue = <<>> /\ order_queue = <<>>
    /\ market_data_queue = <<>> /\ market_log = <<>>
    /\ eng_calls = <<>>
    /\ is_running = FALSE
    /\ start_call = [pc |-> "idle", idx |-> 0, error |-> FALSE]
    /\ connected = {}
    /\ stop_calls = <<>>
    /\ eng_close_calls = <<>> /\ eng_close_orders = <<>>
    /\ order_book = ConstructOrderBook(<<>>, <<>>, BookDepth, 0)
    /\ strat = [impulse_imbalance |-> ImpulseImbalanceInit,
                arbitrage_volume |-> ArbitrageVolumeInit]
    /\ ws = WsInit
    /\ ret = Ret("init", "", "", "", 0)

Init ==
    /\ Constructed
    /\ eng_positions = <<>>
    /\ orderbooks = <<>>

\* A direct call of on_trade_closed, as engine.close_position makes it.
OnTradeClosedCall(trade) ==
    /\ Len(trades_history) < MaxTrades
    /\ OnTradeClosed(trade)
    /\ ret' = Ret("on_trade_closed", trade.symbol, "None", "not_called", 0)
    /\ UNCHANGED <<now, today, unitvars, mktvars, pmvars, engvars>>

Trades == {[symbol |-> "BTC-USDT", pnl |-> p, reason |-> "tp_sl_hit"] : p \in {-10, 10}}

\* Closed trades with a loss, a pnl of exactly 0 and a win.
StreakTrades ==
    {[symbol |-> "BTC-USDT", pnl |-> p, reason |-> "tp_sl_hit"] : p \in {-10, 0, 10}}

LimitTrades ==
    {[symbol |-> "BTC-USDT-0", pnl |-> p, reason |-> "tp_sl_hit"] : p \in {-100, 50}}

\* A position as a caller hands it to the risk manager: fresh from its
\* constructor, or after update_price has recorded the feed.
HeldPosition(symbol, tracked) ==
    [NewPosition(MkSignal(symbol, "long"), 100, 1) EXCEPT
        !.current_price = IF tracked THEN FeedHistory[Len(FeedHistory)][2] ELSE 0,
        !.price_history = IF tracked THEN FeedHistory ELSE <<>>]

\* risk_manager.positions[symbol] = position: the only way a position
\* reaches the risk manager's open set.
RegisterPosition(symbol, tracked) ==
    /\ symbol \notin DOMAIN rm_positions
    /\ rm_positions' = [s \in DOMAIN rm_positions \cup {symbol} |->
                            IF s = symbol THEN HeldPosition(symbol, tracked)
                            ELSE rm_positions[s]]
    /\ ret' = Ret("register_position", symbol, "None", "not_called", 0)
    /\ UNCHANGED <<now, today, unitvars, mktvars, initial_balance, current_balance, peak_balance,
                   trades_history, daily_pnl, consecutive_losses,
                   is_trading_allowed, trading_paused_until,
                   reported_balances, closed_on, pmvars, engvars>>

\* A direct call of should_emergency_close.
ShouldEmergencyCloseCall ==
    /\ ret' = Ret("should_emergency_close", "",
                  IF ShouldEmergencyClose THEN "True" ELSE "False", "not_called", 0)
    /\ UNCHANGED <<now, today, unitvars, mktvars, rmvars, pmvars, engvars>>

\* A direct call of calculate_drawdown.
CalculateDrawdownCall ==
    /\ ret' = [Ret("calculate_drawdown", "", "returned", "not_called", 0)
                EXCEPT !.result = CalculateDrawdown]
    /\ UNCHANGED <<now, today, unitvars, mktvars, rmvars, pmvars, engvars>>

\* A direct call of adjust_position_size.
AdjustPositionSizeCall(base_size, symbol) ==
    /\ ret' = [Ret("adjust_position_size", symbol, "returned", "not_called", 0)
                EXCEPT !.size = base_size,
                       !.result = AdjustPositionSize(base_size, symbol)]
    /\ UNCHANGED <<now, today, unitvars, mktvars, rmvars, pmvars, engvars>>

\* The wall-clock date changes.
Midnight ==
    /\ today < MaxDays
    /\ today' = today + 1
    /\ UNCHANGED <<now, rmvars, pmvars, engvars, mktvars, unitvars, ret>>

\* PositionManager against its exchange and its risk manager.
Next ==
    \/ \E b \in FundedBalances : UpdateBalance(b)
    \/ \E sig \in Signals : OpenPosition(sig)
    \/ \E i \in 1..MaxInflight, st \in Statuses, p \in EntryFillPrices :
            OpenPositionResume(i, st, p)
    \/ \E s \in Symbols, r \in Reasons : ClosePosition(s, r)
    \/ \E i \in 1..MaxInflight, st \in Statuses, p \in ExitFillPrices :
            ClosePositionResume(i, st, p)

Spec == Init /\ [][Next]_vars

RiskSignals == {MkSignal("BTC-USDT", "long")}

\* The risk manager under the clock, gating PositionManager.open_position
\* and the engine's signal and order loops.
NextRisk ==
    \/ Tick
    \/ \E b \in Balances : UpdateBalance(b)
    \/ \E sig \in RiskSignals : CanOpenPositionCall(sig.symbol, sig.size, sig.entry_price)
    \/ \E t \in Trades : OnTradeClosedCall(t)
    \/ \E sig \in RiskSignals : OpenPosition(sig)
    \/ \E i \in 1..MaxInflight, st \in Statuses, p \in EntryFillPrices :
            OpenPositionResume(i, st, p)
    \/ \E sig \in RiskSignals : GenerateSignals(sig)
    \/ ProcessSignal
    \/ ExecuteOrder

SpecRisk == Init /\ [][NextRisk]_vars

\* The risk manager's limits: balances, registered positions and recorded
\* trades, queried through can_open_position and should_emergency_close.
NextLimits ==
    \/ \E b \in LimitBalances : UpdateBalance(b)
    \/ \E s \in OpenSymbols, tracked \in BOOLEAN : RegisterPosition(s, tracked)
    \/ \E t \in LimitTrades : OnTradeClosedCall(t)
    \/ \E r \in LimitRequests : CanOpenPositionCall(r.symbol, r.size, r.price)
    \/ ShouldEmergencyCloseCall

SpecLimits == Init /\ [][NextLimits]_vars

\* The engine's run from start() to stop(), by the error path of start()
\* and by the signal handler, with the market-data, signal and order loops.
NextEngine ==
    \/ Start
    \/ \E o \in Outcomes : ConnectExchangesResume(o)
    \/ SignalStop
    \/ \E i \in 1..MaxStops, o \in Outcomes : DisconnectExchangesResume(i, o)
    \/ LoopsReturn
    \/ \E b \in FundedBalances : UpdateBalance(b)
    \/ \E sig \in RiskSignals : MarketDataLoopStep(sig)
    \/ SignalLoopStep
    \/ OrderLoopStep

SpecEngine == Init /\ [][NextEngine]_vars

\* An engine that holds some positions when its run begins.
InitMonitor ==
    /\ Constructed
    /\ eng_positions \in HeldSets
    /\ orderbooks = <<>>

\* The run of an engine that holds positions: start(), the monitoring loop
\* and stop().
NextMonitor ==
    \/ Start
    \/ \E o \in Outcomes : ConnectExchangesResume(o)
    \/ SignalStop
    \/ \E i \in 1..MaxStops, o \in Outcomes : DisconnectExchangesResume(i, o)
    \/ LoopsReturn
    \/ \E s \in Symbols, o \in StrategyOutcomes, p \in MonitorPrices :
            MonitorPosition(s, o, p)
    \/ \E st \in Statuses, p \in ExitFillPrices : EngineClosePositionResume(st, p)

SpecMonitor == InitMonitor /\ [][NextMonitor]_vars

\* The risk manager's balance, drawdown and position sizing.
NextSizing ==
    \/ \E b \in SizingBalances : UpdateBalance(b)
    \/ \E tracked \in BOOLEAN : RegisterPosition("BTC-USDT-0", tracked)
    \/ \E t \in SizingTrades : OnTradeClosedCall(t)
    \/ CalculateDrawdownCall
    \/ \E b \in SizingBases, s \in SizingSymbols : AdjustPositionSizeCall(b, s)

SpecSizing == Init /\ [][NextSizing]_vars

\* An engine whose strategies were registered by the program embedding it.
InitMarket ==
    /\ Constructed
    /\ eng_positions = <<>>
    /\ orderbooks \in {[st \in names |-> EmptyBooks] :
                          names \in SUBSET {StrategyOrder[i] : i \in DOMAIN StrategyOrder}}

\* The feed, the market-data loop and the signal and order loops of a
\* started engine.
NextMarket ==
    \/ Start
    \/ \E o \in {"ok"} : ConnectExchangesResume(o)
    \/ \E b \in FundedBalances : UpdateBalance(b)
    \/ \E data \in MarketMessages : MarketDataArrives(data)
    \/ \E accepted \in SUBSET DOMAIN orderbooks :
            \E proposers \in SUBSET DOMAIN orderbooks :
                ProcessMarketData(accepted, proposers)
    \/ SignalLoopStep
    \/ OrderLoopStep

SpecMarket == InitMarket /\ [][NextMarket]_vars

\* The same with the loops scheduled fairly: each loop is a task of the
\* gather in start(), and every pass of a loop whose queue is empty ends in
\* asyncio.sleep, so a loop with a message to process gets its turn.
SpecMarketFair ==
    /\ SpecMarket
    /\ WF_vars(\E accepted \in SUBSET DOMAIN orderbooks :
                    \E proposers \in SUBSET DOMAIN orderbooks :
                        ProcessMarketData(accepted, proposers))
    /\ WF_vars(SignalLoopStep)
    /\ WF_vars(OrderLoopStep)

\* PositionManager following the exchange's quotes for its open positions
\* and closing them all.
NextQuotes ==
    \/ \E r \in CloseAllReasons : CloseAllPositions(r)
    \/ \E b \in FundedBalances : UpdateBalance(b)
    \/ \E sig \in QuoteSignals : OpenPosition(sig)
    \/ \E i \in 1..MaxInflight, st \in Statuses, p \in EntryFillPrices :
            OpenPositionResume(i, st, p)
    \/ \E s \in Symbols, p \in QuotePrices : UpdatePositions(s, p)
    \/ \E i \in 1..MaxInflight, st \in Statuses, p \in ExitFillPrices :
            ClosePositionResume(i, st, p)

SpecQuotes == Init /\ [][NextQuotes]_vars

\* PositionManager opening positions and closing them all.
NextCloseAll ==
    \/ \E r \in CloseAllReasons : CloseAllPositions(r)
    \/ \E b \in FundedBalances : UpdateBalance(b)
    \/ \E sig \in QuoteSignals : OpenPosition(sig)
    \/ \E i \in 1..MaxInflight, st \in Statuses, p \in EntryFillPrices :
            OpenPositionResume(i, st, p)
    \/ \E i \in 1..MaxInflight, st \in Statuses, p \in ExitFillPrices :
            ClosePositionResume(i, st, p)

SpecCloseAll == Init /\ [][NextCloseAll]_vars

\* The risk manager's daily PnL series over several dates.
NextDaily ==
    \/ Midnight
    \/ \E b \in Balances : UpdateBalance(b)
    \/ \E t \in Trades : OnTradeClosedCall(t)
    \/ ShouldEmergencyCloseCall

SpecDaily == Init /\ [][NextDaily]_vars

\* Orders that name their exchange, as a program embedding the engine puts
\* them on order_queue.
RoutedOrders ==
    {[symbol |-> sym, side |-> "long", type |-> "LIMIT", size |-> 1, price |-> 100,
      take_profit |-> 110, stop_loss |-> 90, strategy |-> "ImpulseImbalance",
      exchange |-> "bybit"] : sym \in Symbols}

\* The engine's run with orders that reach the exchange: start(), the order
\* loop and stop().
NextOrders ==
    \/ Start
    \/ \E o \in Outcomes : ConnectExchangesResume(o)
    \/ SignalStop
    \/ \E i \in 1..MaxStops : \E o \in Outcomes : DisconnectExchangesResume(i, o)
    \/ LoopsReturn
    \/ \E order \in RoutedOrders : OrderArrives(order)
    \/ OrderLoopStep
    \/ \E st \in Statuses : \E p \in EntryFillPrices : ExecuteOrderResume(st, p)

SpecOrders == InitMonitor /\ [][NextOrders]_vars

\* An engine that holds positions when its run begins, their strategy
\* registered or not.
InitStarve ==
    /\ Constructed
    /\ eng_positions \in HeldSets
    /\ orderbooks \in {<<>>, [st \in {"ImpulseImbalance"} |-> EmptyBooks]}

\* The event loop of a started engine: it runs start(), stop(), the awaited
\* exchange calls and the monitoring loop, and after a monitoring pass that
\* ended in the loop's handler nothing but the next pass.
NextStarve ==
    \/ Suspended /\ Start
    \/ Suspended /\ \E o \in Outcomes : ConnectExchangesResume(o)
    \/ Suspended /\ SignalStop
    \/ Suspended /\ \E i \in 1..MaxStops : \E o \in Outcomes : DisconnectExchangesResume(i, o)
    \/ Suspended /\ LoopsReturn
    \/ \E sym \in Symbols : \E o \in StrategyOutcomes : \E p \in MonitorPrices :
            MonitorPass(sym, o, p)
    \/ Suspended /\ \E st \in Statuses : \E p \in ExitFillPrices :
            EngineClosePositionResume(st, p)

\* The event loop runs whatever is ready to run.
SpecStarve == InitStarve /\ [][NextStarve]_vars /\ WF_vars(NextStarve)

\* The risk manager's record of closed trades and its loss streak.
NextStreak ==
    \/ \E t \in StreakTrades : OnTradeClosedCall(t)
    \/ Tick

SpecStreak == Init /\ [][NextStreak]_vars

\* An order book on its own: built, updated and asked for its figures while
\* the clock runs.
NextBook ==
    \/ \E b \in BidLevelLists : \E a \in AskLevelLists : \E d \in BookDepths :
            NewBook(b, a, d)
    \/ \E u \in BookUpdates : UpdateBook(u)
    \/ IsValidCall
    \/ \E n \in ExecutionSizes : \E sd \in ExecutionSides : CalculateImpactPriceCall(n, sd)
    \/ \E n \in ExecutionSizes : \E sd \in ExecutionSides : EstimateExecutionPriceCall(n, sd)
    \/ \E w \in VolumeWeightsPct : GetWeightedMidPrice(w)
    \/ \E k \in DepthLevels : CalculateMarketDepth(k)
    \/ Tick

SpecBook == Init /\ [][NextBook]_vars

\* The two composite strategies on their own: fed books, evaluated and told
\* of closed trades while the clock runs.
NextStrategy ==
    \/ \E sym \in StrategySymbols : \E imb \in SubSignals : \E imp \in SubSignals :
            CompositeUpdateOrderbook(sym, imb, imp)
    \/ \E sym \in StrategySymbols : ShouldOpenPosition(sym)
    \/ \E profitable \in BOOLEAN : ImpulseImbalanceOnTradeClosed(profitable)
    \/ \E profitable \in BOOLEAN : ArbitrageVolumeOnTradeClosed(profitable)
    \/ Tick

SpecStrategy == Init /\ [][NextStrategy]_vars

\* The exchange's socket: the two tasks that reconnect, the answers of
\* websockets.connect and the connection dropping.
NextSocket ==
    \/ \E caller \in WsCallers : WsConnect(caller)
    \/ \E caller \in WsCallers : \E ok \in BOOLEAN : WsConnectResume(caller, ok)
    \/ \E caller \in WsCallers : WsSleepDone(caller)
    \/ WsConnectionLost

SpecSocket == Init /\ [][NextSocket]_vars

\* ---- properties ---------------------------------------------------------

Paused == ~is_trading_allowed \/ now < trading_paused_until

\* The symbol of the entry order a step submits through open_position, if any.
EntrySubmitted(s) ==
    \/ /\ Len(open_calls') > Len(open_calls)
       /\ open_calls'[Len(open_calls')].symbol = s
    \/ /\ Len(eng_calls') > Len(eng_calls)
       /\ eng_calls'[Len(eng_calls')].symbol = s

\* A step puts a position into slot s of the open set, or replaces the one there.
Registered(s) ==
    /\ s \in DOMAIN positions'
    /\ s \notin DOMAIN positions \/ positions'[s] # positions[s]

\* C1: at most one open position per symbol: no step submits an entry order
\* for a symbol whose slot of the open set is occupied, and no fill
\* overwrites an occupied slot.
C1_OnePositionPerSymbol ==
    [][\A s \in Symbols :
          /\ EntrySubmitted(s) => s \notin DOMAIN positions /\ s \notin DOMAIN eng_positions
          /\ (s \in DOMAIN positions /\ s \in DOMAIN positions')
                => positions'[s].entry_price = positions[s].entry_price
                   /\ positions'[s].side = positions[s].side]_vars

\* C2: no entry order is submitted to an exchange, by open_position or by
\* execute_order, at a moment when the risk manager is paused or trading is
\* disallowed.
C2_NoEntryWhilePaused ==
    [][(Len(open_calls') > Len(open_calls) \/ Len(eng_calls') > Len(eng_calls))
          => ~Paused]_vars

\* An order approved before the pause reached execute_order during the pause
\* and no place_order call came of it.
C2_Witness ==
    /\ now < trading_paused_until
    /\ ret.op = "execute_order"
    /\ eng_calls = <<>>

\* C3: open_position registers a position only when place_order answered
\* "filled"; on rejected, partial or an exception it returns None and leaves
\* the open set as it was.
C3_RegisterOnlyOnFill ==
    [][/\ \A s \in Symbols :
             Registered(s) => /\ ret'.op = "open_position"
                              /\ ret'.symbol = s
                              /\ ret'.resp = "filled"
                              /\ ret'.value = "Position"
       /\ (ret'.op = "open_position" /\ ret'.resp \in {"rejected", "partial", "error"})
             => (ret'.value = "None" /\ positions' = positions)]_vars

C3_Witness ==
    /\ ret.op = "open_position"
    /\ ret.resp \in {"rejected", "partial", "error"}
    /\ ret.value = "None"
    /\ ret.symbol \notin DOMAIN positions

\* C4: open_position calls place_order only after can_open_position returned
\* true for the signal; when the check denies, it returns None with no
\* exchange call and the open set unchanged.
C4_RiskCheckFirst ==
    [][/\ Len(open_calls') > Len(open_calls)
             => LET signal == open_calls'[Len(open_calls')]
                IN CanOpenPosition(signal.symbol, Rat(signal.size, 1),
                                   signal.entry_price) = "True"
       /\ (ret'.op = "open_position" /\ ret'.resp = "not_called")
             => /\ ret'.value = "None"
                /\ open_calls' = open_calls
                /\ positions' = positions]_vars

C4_Witness ==
    /\ ret.op = "open_position"
    /\ ret.resp = "not_called"
    /\ ret.value = "None"
    /\ CanOpenPosition(ret.symbol, Rat(1, 1), 100) = "False"

\* C5: close_position for a symbol with no open position returns False with
\* no exchange call and changes neither the open set nor the risk manager.
C5_CloseAbsentIsNoOp ==
    [][/\ Len(close_calls') > Len(close_calls)
             => close_calls'[Len(close_calls')].symbol \in DOMAIN positions
       /\ (ret'.op = "close_position" /\ ret'.symbol \notin DOMAIN positions
              /\ ret'.resp \in {"not_called", "pending"})
             => /\ ret'.value = "False"
                /\ ret'.resp = "not_called"
                /\ UNCHANGED <<positions, open_calls, close_calls, rmvars>>]_vars

\* The second close of a symbol after a close of it succeeded.
C5_Witness ==
    /\ ret.op = "close_position"
    /\ ret.resp = "not_called"
    /\ ret.value = "False"
    /\ \E i \in DOMAIN trades_history : trades_history[i].symbol = ret.symbol

\* C6: overlapping close_position calls for one symbol submit only one
\* closing order: no two closing orders for a symbol are in flight together.
C6_SingleCloseOrder ==
    \A s \in Symbols :
        Cardinality({i \in DOMAIN close_calls : close_calls[i].symbol = s}) <= 1

C8_FlagFalseAfterLosses ==
    consecutive_losses >= PauseAfterLosses => ~is_trading_allowed

Requests == {<<s, n>> : s \in Symbols, n \in {1, 2}}

\* C9: while the clock is short of trading_paused_until every request is
\* denied, and trading_paused_until never decreases, whatever trade is
\* recorded.
C9_PauseHolds ==
    /\ [](now < trading_paused_until
            => \A r \in Requests : CanOpenPosition(r[1], Rat(r[2], 1), 100) = "False")
    /\ [][trading_paused_until' >= trading_paused_until]_vars

\* A winning trade was recorded during the pause and the pause still holds.
C9_Witness ==
    /\ now < trading_paused_until
    /\ trades_history # <<>>
    /\ trades_history[Len(trades_history)].pnl > 0
    /\ ret.op = "can_open_position"
    /\ ret.value = "False"

\* C10: can_open_position returns a boolean in every state.
C10_CanOpenNeverRaises ==
    ret.op = "can_open_position" => ret.value \in {"True", "False"}

\* The number of open positions that calculate_correlation reports as
\* correlated with a symbol.
CorrelatedCount(symbol) ==
    Cardinality({p \in DOMAIN rm_positions :
                    RatLess(Rat(7, 10), AbsCorrelation(symbol, p))})

\* C11: with trading allowed, no pause, a funded balance, the drawdown below
\* its limit and the exposure and correlation checks passing,
\* can_open_position denies a request exactly when its value is more than
\* max_position_size of the balance, and allows it otherwise.
C11_PositionSizeLimit ==
    \A r \in LimitRequests :
        LET position_value == r.size * r.price IN
        (/\ is_trading_allowed
         /\ ~(now < trading_paused_until)
         /\ current_balance > 0
         /\ (peak_balance - current_balance) * 100 < MaxDrawdownPct * peak_balance
         /\ (TotalExposure + position_value) * 100 <= MaxTotalRiskPct * current_balance
         /\ CorrelatedCount(r.symbol) < MaxCorrelatedPositions)
        => CanOpenPosition(r.symbol, Rat(r.size, 1), r.price)
             = (IF position_value * 100 > MaxPositionSizePct * current_balance
                THEN "False" ELSE "True")

\* A request worth more than 5% and no more than 15% of the balance was
\* denied with nothing else in its way.
C11_Witness ==
    /\ ret.op = "can_open_position"
    /\ ret.value = "False"
    /\ is_trading_allowed /\ ~(now < trading_paused_until)
    /\ current_balance > 0 /\ peak_balance = current_balance
    /\ rm_positions = <<>>
    /\ ret.size * ret.price * 100 > MaxPositionSizePct * current_balance
    /\ ret.size * ret.price * 100 <= MaxTotalRiskPct * current_balance

\* C12: the risk manager's open set is the position manager's open set
\* after any sequence of opens and closes.
C12_SharedOpenSet ==
    DOMAIN rm_positions = DOMAIN positions

\* C13: a request for a new symbol is denied once max_correlated_positions
\* open positions are correlated with it.  Every symbol of the model is
\* quoted by the one feed, so a position that has recorded the feed over the
\* correlation window has returns equal to the new symbol's: correlation 1.
C13_CorrelatedDenied ==
    (/\ ret.op = "can_open_position"
     /\ current_balance > 0
     /\ ret.symbol \notin DOMAIN rm_positions
     /\ Cardinality({p \in DOMAIN rm_positions :
                        rm_positions[p].price_history = FeedHistory})
            >= MaxCorrelatedPositions)
    => ret.value = "False"

RealizedLossToday ==
    LET total == SumSeq([i \in DOMAIN trades_history |-> trades_history[i].pnl])
    IN IF total < 0 THEN 0 - total ELSE 0

LoopSteps == {"generate_signals", "process_signal", "execute_order",
              "monitor", "engine_close_position"}

\* C19: a connect() that raises during start() takes start() into its error
\* path with the flag down, and from then on the loops are never launched
\* and no step of any loop is taken: the queues and the open set stay as
\* they are.
C19_ConnectFailureAbortsStartup ==
    [][/\ (ret'.op = "connect_exchanges" /\ ret'.resp = "error")
            => /\ start_call'.error
               /\ start_call'.pc = "aborting"
               /\ ~is_running'
       /\ start_call.error
            => /\ start_call'.error
               /\ start_call'.pc \in {"aborting", "returned"}
               /\ ret'.op \notin LoopSteps
               /\ UNCHANGED <<signal_queue, order_queue, eng_positions,
                              eng_close_orders>>]_vars

\* The first exchange connected, the second failed, and start() has
\* returned through stop() with the first exchange disconnected again.
C19_Witness ==
    /\ start_call.error
    /\ start_call.pc = "returned"
    /\ start_call.idx = 1
    /\ connected = {}
    /\ ret.op = "stop"

\* C20: every order taken off the order queue is submitted to an exchange:
\* the step that dequeues it leaves a place_order call in flight for the
\* order's symbol.
C20_DequeuedOrderSubmitted ==
    [][Len(order_queue') < Len(order_queue)
          => /\ Len(eng_calls') = Len(eng_calls) + 1
             /\ eng_calls'[Len(eng_calls')].symbol = Head(order_queue).symbol]_vars

\* The dates on which trades were recorded, and the PnL recorded on one.
TradeDates == {closed_on[i] : i \in DOMAIN closed_on}
PnlOn(date) ==
    SumSeq([i \in DOMAIN trades_history |->
               IF closed_on[i] = date THEN trades_history[i].pnl ELSE 0])

\* C27: the daily PnL series has one bucket for each date on which a trade
\* was recorded, and its last bucket is the sum of the PnL of the trades
\* recorded on the latest such date: trades of different dates never share
\* a bucket.
C27_BucketPerDate ==
    /\ Len(daily_pnl) = Cardinality(TradeDates)
    /\ daily_pnl # <<>> => daily_pnl[Len(daily_pnl)] = PnlOn(closed_on[Len(closed_on)])

\* C28: recording a losing trade makes adjust_position_size return strictly
\* less than it returned just before, for every base size and symbol.
C28_LossDecreasesSize ==
    [][(/\ ret'.op = "on_trade_closed"
        /\ Len(trades_history') = Len(trades_history) + 1
        /\ trades_history'[Len(trades_history')].pnl < 0)
          => \A b \in SizingBases, s \in SizingSymbols :
                RatLess(AdjustPositionSize(b, s)', AdjustPositionSize(b, s))]_vars

LargestReported ==
    CHOOSE b \in reported_balances : \A c \in reported_balances : c <= b

\* C30: once update_balance has been called, peak_balance is the largest
\* balance it was ever called with, so it is at least current_balance, and
\* it never decreases; calculate_drawdown is
\* (peak_balance - current_balance) / peak_balance x 100, between 0 and 100,
\* and about 18.18 for a peak of 1100 and a balance of 900.
C30_PeakAndDrawdown ==
    /\ [](/\ reported_balances # {} => peak_balance = LargestReported
          /\ peak_balance >= current_balance
          /\ LET dd == CalculateDrawdown IN
                /\ peak_balance > 0
                     => dd.n * peak_balance
                          = (peak_balance - current_balance) * 100 * dd.d
                /\ dd.n >= 0 /\ dd.n <= 100 * dd.d
                /\ (peak_balance = 1100 /\ current_balance = 900)
                     => (1818 * dd.d <= dd.n * 100 /\ dd.n * 100 < 1819 * dd.d))
    /\ [][peak_balance' >= peak_balance]_vars

\* test_risk_updates at a hundredth: 1000, 1100 and 900 were reported and
\* calculate_drawdown has answered 200/11.
C30_Witness ==
    /\ ret.op = "calculate_drawdown"
    /\ initial_balance = 1000
    /\ reported_balances = {900, 1000, 1100}
    /\ peak_balance = 1100 /\ current_balance = 900
    /\ ret.result = Rat(200, 11)

\* C26: a pass of update_positions for which get_price answered 0 leaves
\* the position's current_price and price_history as they were and submits
\* no closing order.
C26_ZeroQuoteIgnored ==
    [][\A s \in Symbols :
          (ret'.op = "update_positions" /\ ret'.symbol = s /\ ret'.price = 0)
          => /\ positions'[s].current_price = positions[s].current_price
             /\ positions'[s].price_history = positions[s].price_history
             /\ close_calls' = close_calls]_vars

\* The close_position call of close_all_positions that a step resumed.
ResumedCloseAll(i) ==
    /\ i \in DOMAIN close_calls
    /\ close_calls[i].reason \in CloseAllReasons
    /\ ret'.op = "close_position"
    /\ ret'.symbol = close_calls[i].symbol
    /\ close_calls' = RemoveAt(close_calls, i)

\* C24: close_all_positions starts a close_position for every symbol that
\* is open when it is called, each with its own closing order; and when one
\* of these calls comes back from the exchange with an error or without a
\* fill it returns False, raises nothing, and the calls for the other
\* symbols stay in flight.
C24_CloseAllIsolatesFailures ==
    [][/\ ret'.op = "close_all_positions"
          => \A s \in DOMAIN positions :
                \E i \in DOMAIN close_calls' \ DOMAIN close_calls :
                    /\ close_calls'[i].symbol = s
                    /\ close_calls'[i].reason \in CloseAllReasons
                    /\ close_calls'[i].order.size = positions[s].size
       /\ \A i \in 1..MaxInflight :
             (ResumedCloseAll(i) /\ ret'.resp # "filled")
             => /\ ret'.value = "False"
                /\ positions' = positions
                /\ \A j \in DOMAIN close_calls \ {i} :
                      \E k \in DOMAIN close_calls' : close_calls'[k] = close_calls[j]]_vars

\* close_all_positions was called with two positions open; the exchange
\* answered one of the closes with an error, the other is still in flight.
C24_Witness ==
    /\ ret.op = "close_position"
    /\ ret.resp = "error"
    /\ ret.value = "False"
    /\ Len(close_calls) = 1
    /\ close_calls[1].reason \in CloseAllReasons
    /\ close_calls[1].symbol # ret.symbol
    /\ DOMAIN positions = Symbols

\* C25: when the first answer to the closes of close_all_positions is an
\* exchange error, the close of that symbol is tried again: the step leaves
\* a close call for the symbol in flight.
C25_ErrorIsRetried ==
    [][\A i \in 1..MaxInflight :
          (ret.op = "close_all_positions" /\ ResumedCloseAll(i) /\ ret'.resp = "error")
          => \E k \in DOMAIN close_calls' : close_calls'[k].symbol = ret'.symbol]_vars

\* The exceptions the three queue loops catch and log.
LoopFailures == {"TypeError", "ZeroDivisionError", "KeyError"}

C23_BooksInOrderBeforeOrders ==
    /\ [](\A i, j \in DOMAIN market_log :
             i < j => market_log[i].timestamp < market_log[j].timestamp)
    /\ [][/\ \A st \in DOMAIN orderbooks, s \in Symbols :
               (orderbooks'[st][s] # orderbooks[st][s])
                 => /\ orderbooks'[st][s] = NewOrderBook(Head(market_data_queue))
                    /\ orderbooks'[st][s].timestamp > orderbooks[st][s].timestamp
          /\ (Len(signal_queue') > Len(signal_queue))
                 => (\A st \in DOMAIN orderbooks :
                       orderbooks'[st][signal_queue'[Len(signal_queue')].symbol]
                          = NewOrderBook(Head(market_data_queue)))
          /\ (Len(order_queue') > Len(order_queue))
                 => (\A st \in DOMAIN orderbooks :
                       orderbooks[st][order_queue'[Len(order_queue')].symbol].timestamp > 0)
          ]_vars

\* Two messages for one symbol have gone to both strategies in turn, and
\* the order that came of the first is on the order queue.
C23_Witness ==
    /\ DOMAIN orderbooks = {StrategyOrder[i] : i \in DOMAIN StrategyOrder}
    /\ Len(market_log) = 2
    /\ market_log[1].symbol = market_log[2].symbol
    /\ market_log[1].outcome = "generated" /\ market_log[2].outcome = "generated"
    /\ \A st \in DOMAIN orderbooks : orderbooks[st][market_log[2].symbol].timestamp = 2
    /\ order_queue # <<>>
    /\ order_queue[1].symbol = market_log[1].symbol

\* C31: a book that is_valid() accepts has its best bid below its best ask,
\* bids by falling and asks by rising price, no level of size 0 or less and
\* no more than `depth` levels a side; and update() stamps the book with
\* the time of the call and leaves the metrics cache empty.
C31_ValidBookWellFormed ==
    /\ [](BookIsValid =>
            /\ order_book.bids[1].price < order_book.asks[1].price
            /\ \A i \in 2..Len(order_book.bids) :
                  order_book.bids[i].price <= order_book.bids[i - 1].price
            /\ \A i \in 2..Len(order_book.asks) :
                  order_book.asks[i].price >= order_book.asks[i - 1].price
            /\ \A i \in DOMAIN order_book.bids : order_book.bids[i].size > 0
            /\ \A i \in DOMAIN order_book.asks : order_book.asks[i].size > 0
            /\ Len(order_book.bids) <= order_book.depth
            /\ Len(order_book.asks) <= order_book.depth)
    /\ [][(ret'.op = "update" /\ now' = now)
            => /\ order_book'.timestamp = now
               /\ order_book'.cached_metrics = <<>>]_vars

\* C32: estimate_execution_price for more than a side holds answers with
\* the sentinel: an infinite price for a buy, the price 0 for a sell.
C32_UnfillableSentinel ==
    [][(/\ ret'.op = "estimate_execution_price" /\ now' = now
        /\ ret'.size > SumSeq(SizesOf(IF ret'.side = "buy" THEN order_book.asks
                                      ELSE order_book.bids)))
          => IF ret'.side = "buy"
             THEN ret'.value = "value" /\ ret'.result = Infinity
             ELSE ret'.value = "value" /\ ret'.result = Rat(0, 1)]_vars

\* C40: what calculate_market_depth(price_levels) and
\* get_weighted_mid_price(volume_weight) return, the cache's entry after the
\* call, is what a fresh computation on the book as it stands gives for the
\* argument of the call; and update() leaves no entry to answer from.
C40_CacheMatchesFresh ==
    [][/\ (ret'.op = "calculate_market_depth" /\ now' = now)
            => order_book'.cached_metrics["market_depth"]
                  = MarketDepth(order_book', ret'.size)
       /\ (ret'.op = "get_weighted_mid_price" /\ now' = now)
            => ret'.result = WeightedMidPrice(order_book', ret'.size)
       /\ (ret'.op = "update" /\ now' = now)
            => order_book'.cached_metrics = <<>>]_vars

\* C33: an evaluation in which both sub-strategies answer with a signal for
\* the symbol returns, when the two sides are equal, a signal of confidence
\* 'high' on that side whose entry price is the higher of the two for a long
\* and the lower for a short; when the sides differ it returns None.
C33_AgreementFuses ==
    [][(/\ ret'.op = "should_open_position" /\ now' = now
        /\ ~strat.impulse_imbalance.is_paused)
          => LET imbalance_signal ==
                    strat.impulse_imbalance.imbalance_strategy.signal[ret'.symbol]
                 impulse_signal ==
                    strat.impulse_imbalance.impulse_strategy.signal[ret'.symbol]
             IN (imbalance_signal # NoSignal /\ impulse_signal # NoSignal)
                  => IF imbalance_signal.side = impulse_signal.side
                     THEN /\ ret'.value = "signal" /\ ret'.eval = "high"
                          /\ ret'.side = imbalance_signal.side
                          /\ ret'.price =
                                IF imbalance_signal.side = "long"
                                THEN Max(imbalance_signal.entry_price,
                                         impulse_signal.entry_price)
                                ELSE Min(imbalance_signal.entry_price,
                                         impulse_signal.entry_price)
                     ELSE ret'.value = "None"]_vars

\* C34: an evaluation in which one sub-strategy alone answers with a signal
\* leaves a pending entry for the symbol; an evaluation that finds an entry
\* no older than the confirmation window while the other sub-strategy
\* answers with a signal of the entry's side returns a signal of confidence
\* 'high'; an evaluation that finds an entry older than the window removes
\* it and returns no signal made from it.
C34_PendingPromotedOrDropped ==
    [][(/\ ret'.op = "should_open_position" /\ now' = now
        /\ ~strat.impulse_imbalance.is_paused)
          => LET s == strat.impulse_imbalance
                 sym == ret'.symbol
                 imbalance_signal == s.imbalance_strategy.signal[sym]
                 impulse_signal == s.impulse_strategy.signal[sym]
                 pending == s.pending_signals
                 pending_after == strat'.impulse_imbalance.pending_signals
                 fresh == /\ sym \in DOMAIN pending
                          /\ now - pending[sym].timestamp <= ConfirmationWindow
                 other == IF fresh /\ pending[sym].type = "imbalance"
                          THEN impulse_signal ELSE imbalance_signal
             IN /\ ((imbalance_signal = NoSignal) # (impulse_signal = NoSignal)
                        /\ sym \notin DOMAIN pending)
                      => /\ sym \in DOMAIN pending_after
                         /\ pending_after[sym].timestamp = now
                /\ (fresh /\ other # NoSignal
                        /\ other.side = pending[sym].signal.side)
                      => ret'.value = "signal" /\ ret'.eval = "high"
                /\ (sym \in DOMAIN pending /\ ~fresh)
                      => /\ \/ sym \notin DOMAIN pending_after
                            \/ pending_after[sym].timestamp = now
                         /\ (imbalance_signal = NoSignal \/ impulse_signal = NoSignal)
                                => ret'.value = "None"]_vars

RatLeq(a, b) == ~RatLess(b, a)

\* C35: no on_trade_closed call of a composite strategy ends in an error;
\* a loss multiplies each adaptive threshold by 1.1, a win by 0.95 down to
\* its floor at most; and every threshold is at or above its floor at all
\* times.
C35_ThresholdsAboveFloor ==
    /\ [](/\ RatLeq(ImpulseImbalanceInit.min_volume_ratio,
                    strat.impulse_imbalance.min_volume_ratio)
          /\ RatLeq(ImpulseImbalanceInit.min_imbalance_ratio,
                    strat.impulse_imbalance.min_imbalance_ratio)
          /\ RatLeq(ArbitrageVolumeInit.min_spread_pct, strat.arbitrage_volume.min_spread_pct)
          /\ \A level \in DOMAIN ArbitrageVolumeInit.volume_thresholds :
                RatLeq(ArbitrageVolumeInit.volume_thresholds[level],
                       strat.arbitrage_volume.volume_thresholds[level]))
    /\ [][(ret'.op = "ImpulseImbalance.on_trade_closed" /\ strat' # strat)
            => /\ ret'.value = "None"
               /\ strat'.impulse_imbalance.min_volume_ratio =
                    IF ret'.eval = "loss"
                    THEN RatMul(strat.impulse_imbalance.min_volume_ratio, Rat(11, 10))
                    ELSE RatMax(ImpulseImbalanceInit.min_volume_ratio,
                                RatMul(strat.impulse_imbalance.min_volume_ratio,
                                       Rat(19, 20)))]_vars
    /\ [][(ret'.op = "ArbitrageVolume.on_trade_closed" /\ strat' # strat)
            => /\ ret'.value = "None"
               /\ \A level \in DOMAIN ArbitrageVolumeInit.volume_thresholds :
                    strat'.arbitrage_volume.volume_thresholds[level] =
                        IF ret'.eval = "loss"
                        THEN RatMul(strat.arbitrage_volume.volume_thresholds[level],
                                    Rat(11, 10))
                        ELSE RatMax(ArbitrageVolumeInit.volume_thresholds[level],
                                    RatMul(strat.arbitrage_volume.volume_thresholds[level],
                                           Rat(19, 20)))]_vars

\* C36: a _ws_connect call makes no more than max_reconnect_attempts
\* attempts, sleeps 2^n seconds after its n-th failure, and returns only
\* with a socket it has opened and the attempt counter back at 0; any other
\* end is an exception.
C36_ConnectEndsConnectedOrRaises ==
    /\ [](\A caller \in WsCallers : ws.calls[caller].attempts <= MaxReconnectAttempts)
    /\ [][(ret'.op = "_ws_connect" /\ ws' # ws)
            => /\ ret'.value = "sleeping" => ret'.price = 2 ^ ret'.size
               /\ ret'.value = "returned"
                    => /\ ws'.calls[ret'.symbol].established
                       /\ ws'.ws_public = "open"
                       /\ ws'.reconnect_attempts = 0]_vars

\* The number of records at the end of a history whose pnl is below 0.
RECURSIVE TrailingLosses(_)
TrailingLosses(history) ==
    IF history = <<>> \/ history[Len(history)].pnl >= 0 THEN 0
    ELSE 1 + TrailingLosses(SubSeq(history, 1, Len(history) - 1))

\* C37: consecutive_losses is the number of records at the end of
\* trades_history with pnl < 0, a record of pnl 0 ending the streak like a
\* win; and every on_trade_closed call adds one record at the end of
\* trades_history and changes none of the earlier ones.
C37_StreakIsTrailingLosses ==
    /\ [](consecutive_losses = TrailingLosses(trades_history))
    /\ [][(ret'.op = "on_trade_closed" /\ now' = now)
            => /\ Len(trades_history') = Len(trades_history) + 1
               /\ SubSeq(trades_history', 1, Len(trades_history)) = trades_history]_vars

C37_Witness ==
    /\ Len(trades_history) = 3
    /\ trades_history[1].pnl < 0
    /\ trades_history[2].pnl = 0
    /\ trades_history[3].pnl < 0
    /\ consecutive_losses = 1
    /\ ret.op = "on_trade_closed"

====
